---- MODULE Spec2Model ----
(***************************************************************************)
(* A state-machine model of TinyECS (src/tinyecs.h, src/tinyecs.cc): one   *)
(* World with its archetypes, cemeteries, deferred queues, the field       *)
(* index of component D, queries and cachers.                              *)
(*                                                                         *)
(* The imperative code is translated functionally: every method is an      *)
(* operator that takes the world state as a record S and returns the       *)
(* state it leaves behind.  The record's fields are the module's           *)
(* variables; an action is "St -> method -> Commit".                       *)
(***************************************************************************)
EXTENDS Integers, Sequences, FiniteSets, TLC

VARIABLES
    archetypes, \* World::archetypes: the signatures, in creation order
    matcher,    \* World::matcher
    ready,      \* IQuery::ready, per query
    qaids,      \* IQuery::aids, per query: the archetype ids PreMatch stored
    qfilters,   \* IQuery::filters, per query
    ecursor,    \* IArchetype::ecursor, per archetype id
    alives,     \* IArchetype::alives, per archetype id
    cemQ,       \* Cemetery::q, per archetype id
    cemBits,    \* Cemetery::blocks (the set bits), per archetype id
    cemBlocks,  \* Cemetery::blocks.size(), per archetype id
    blocks,     \* IArchetype::blocks.size(), per archetype id
    toBornA,    \* IArchetype::toBorn, per archetype id: short id -> initializer
    toKillA,    \* IArchetype::toKill, per archetype id: short id -> callback
    rows,       \* the D cell of each row: the FieldProxy's value and iterator
    orphans,    \* entries of index1 that no FieldProxy's iterator points to
    toBornW,    \* World::toBorn
    toKillW,    \* World::toKill
    callbacks,  \* World::callbacks, in registration order
    nextCallbackId, \* World::nextCallbackId
    icallbacks, \* IFieldIndexRoot::callbacks of index1: [id, owner] per listener
    inextCallbackId, \* IFieldIndexRoot::nextCallbackId of index1
    cachers,    \* per cacher: whether it is constructed, Cacher::cache, and
                \* ICacher::aids and ICacher::filters, copied from its query
    lastOp,     \* the last API call: its name, arguments and returned value
    events,     \* what the last API call invoked, in order
    bornCalls,  \* history: the DelayedNewEntity calls since the last apply
    killCalls,  \* history: the effective DelayedKill calls since the last apply
    pendingBorn,\* history: id -> initializer of the creations still expected
    pendingKill,\* history: id -> callback of the delayed kills still expected
    deadOrder   \* history: per archetype, the dead short ids, oldest kill first

vars == << archetypes, matcher, ready, qaids, qfilters, ecursor, alives, cemQ, cemBits, cemBlocks, blocks, toBornA, toKillA, rows, orphans,
           toBornW, toKillW, callbacks, nextCallbackId, icallbacks,
           inextCallbackId, cachers,
           lastOp, events, bornCalls, killCalls, pendingBorn, pendingKill,
           deadOrder >>

-----------------------------------------------------------------------------
(* Bounds of the model. *)

\* No archetype allocates a fresh short id at or above MaxCursor.
MaxCursor == 2
\* Neither deferred queue of the world grows beyond MaxQueue entries.
MaxQueue == 2
\* The values of the indexed field D.x are 0..MaxVal.
MaxVal == 1
\* A cemetery on its own is given no id while it holds MaxCemetery ids.
MaxCemetery == 3
\* The rows of a block, of an archetype and of a cemetery: 1024 in the
\* source, scaled down so that the model fills a block.
MaxNumEntitiesPerBlock == 2
\* A client that fills blocks allocates no fresh short id at or above
\* MaxBlockCursor: one row beyond the first block.
MaxBlockCursor == MaxNumEntitiesPerBlock + 1
\* The archetypes of a world whose signatures are arbitrary.
MaxArchetypes == 3
\* The lifecycle callbacks a client of the model registers.
MaxUserCallbacks == 2
\* The width of a Signature: 128 in the source, scaled down to the component
\* ids of the model, so that MaxNumComponents is the first id beyond it.
MaxNumComponents == 4

-----------------------------------------------------------------------------
(* Program constants. *)

ID_A == 0
ID_B == 1
ID_C == 2
ID_D == 3

\* The component ids the model's signatures are made of.
ComponentIds == {ID_A, ID_B, ID_C, ID_D}

\* The archetypes of the world, in creation order: NewArchetype<D>() and
\* NewArchetype<A, D>().  The index in this tuple, minus one, is the archetype id.
ArchSignatures == << {ID_D}, {ID_A, ID_D} >>

NumArchetypes == Len(ArchSignatures)
Aids == 0 .. (NumArchetypes - 1)
ShortIds ==
    0 .. ((IF MaxCursor > MaxBlockCursor THEN MaxCursor ELSE MaxBlockCursor) - 1)
Values == 0 .. MaxVal

\* The user's before-kill callbacks, and the absent one (nullptr).
BeforeKillCbs == {"cb1", "cb2"}
NoCb == "nullptr"
\* A std::function that holds no target.
EmptyFn == "empty"

Pow2(n) == 2 ^ n

Pack(x, y) == ((x % Pow2(13)) * Pow2(19)) + (y % Pow2(19))
UnpackX(eid) == (eid \div Pow2(19)) % Pow2(13)
UnpackY(eid) == eid % Pow2(19)

\* The same functions on 32-bit words, a word being the set of the positions
\* of its one bits, so that ids above 2^31 - 1 can be told apart: Bits(n) is
\* the word of a number below 2^31, WordValue(w) the number of a word below
\* 2^31.
WordBits == 0 .. 31
Bits(n) == { i \in 0 .. 30 : (n \div Pow2(i)) % 2 = 1 }
RECURSIVE WordValue(_)
WordValue(w) ==
    IF w = {} THEN 0
    ELSE LET i == CHOOSE j \in w : TRUE IN Pow2(i) + WordValue(w \ {i})
\* 0x1fff is LowBits(13), 0x7ffff is LowBits(19).
LowBits(n) == 0 .. (n - 1)
ShiftLeft(w, k) == { i + k : i \in w } \cap WordBits
ShiftRight(w, k) == { i - k : i \in { j \in w : j >= k } }

\* ((x & 0x1fff) << 19) | (y & 0x7ffff), with the archetype id masked to 12
\* bits.
PackWordOfTwelveBits(x, y) ==
    ShiftLeft(x \cap LowBits(12), 19) \cup (y \cap LowBits(19))
\* ((x & 0x1fff) << 19) | (y & 0x7ffff)
PackWord(x, y) == ShiftLeft(x \cap LowBits(13), 19) \cup (y \cap LowBits(19))
\* (eid >> 19) & 0x1fff
UnpackXWord(eid) == ShiftRight(eid, 19) \cap LowBits(13)
\* eid & 0x7ffff
UnpackYWord(eid) == eid \cap LowBits(19)
\* eid1 < eid2 on EntityId, an unsigned 32-bit integer.
WordLess(w1, w2) ==
    \E i \in WordBits :
        /\ i \in w2 /\ i \notin w1
        /\ \A j \in WordBits : j > i => (j \in w1 <=> j \in w2)

\* Every id the model allocates, and one id of an archetype that does not exist.
Eids == { Pack(a, e) : a \in Aids, e \in ShortIds }
BadEid == Pack(NumArchetypes, 0)

\* An EntityReference: NullEntityReference has a == nullptr and id == 0.
Ref(eid) == [null |-> FALSE, id |-> eid]
NullEntityReference == [null |-> TRUE, id |-> 0]

-----------------------------------------------------------------------------
(* Containers. *)

Range(s) == { s[i] : i \in 1 .. Len(s) }

\* std::unordered_map::insert: an existing key keeps its value.
MapInsert(m, k, v) == IF k \in DOMAIN m THEN m ELSE (k :> v) @@ m
MapErase(m, k) == [ x \in (DOMAIN m) \ {k} |-> m[x] ]
EmptyMap == << >>

RECURSIVE SortedSeq(_)
\* The elements of a std::set of integers in iteration order.
SortedSeq(s) ==
    IF s = {} THEN << >>
    ELSE LET m == CHOOSE x \in s : \A y \in s : x <= y
         IN << m >> \o SortedSeq(s \ {m})

RECURSIVE Reverse(_)
Reverse(s) == IF s = << >> THEN << >> ELSE Reverse(Tail(s)) \o << Head(s) >>

RECURSIVE SelectFirsts(_, _)
\* The entries of a sequence of records with field id, each id's first entry only.
SelectFirsts(s, seen) ==
    IF s = << >> THEN << >>
    ELSE IF Head(s).id \in seen THEN SelectFirsts(Tail(s), seen)
    ELSE << Head(s) >> \o SelectFirsts(Tail(s), seen \cup {Head(s).id})

-----------------------------------------------------------------------------
(* Matcher, queries and filters. *)

\* A Matcher: all, and b[c], the archetype ids whose signature holds c.
EmptyMatcher == [all |-> {}, b |-> [c \in ComponentIds |-> {}]]

PutArchetypeId(M, signature, aid) ==
    [all |-> M.all \cup {aid},
     b |-> [c \in ComponentIds |->
              IF c \in signature THEN M.b[c] \cup {aid} ELSE M.b[c]]]

\* all & b[c1] & b[c2] & ...
Matcher_MatchAll(M, signature) ==
    { a \in M.all : \A c \in signature : a \in M.b[c] }
\* b[c1] | b[c2] | ...
Matcher_MatchAny(M, signature) == UNION { M.b[c] : c \in signature }
\* The archetype ids a world of the model can hand out.
ArchetypeIdRange == 0 .. MaxArchetypes
\* ~MatchAny(signature), without the mask by all
Matcher_MatchNoneUnmasked(M, signature) ==
    ArchetypeIdRange \ Matcher_MatchAny(M, signature)
Matcher_MatchNone(M, signature) == M.all \ Matcher_MatchAny(M, signature)

Matcher_Match(M, relation, signature) ==
    CASE relation = "ALL" -> Matcher_MatchAll(M, signature)
      [] relation = "ANY" -> IF signature = {} THEN M.all
                             ELSE Matcher_MatchAny(M, signature)
      [] relation = "NONE" -> Matcher_MatchNone(M, signature)

RECURSIVE AnsBits(_)
\* The ArchetypeIdBitset of a set of archetype ids, as a number.
AnsBits(aids) ==
    IF aids = {} THEN 0
    ELSE LET a == CHOOSE x \in aids : TRUE
         IN Pow2(a) + AnsBits(aids \ {a})

RECURSIVE MatcherAfter(_)
\* The matcher of a world after NewArchetype of each signature, in order.
MatcherAfter(sigs) ==
    IF sigs = << >> THEN EmptyMatcher
    ELSE PutArchetypeId(MatcherAfter(SubSeq(sigs, 1, Len(sigs) - 1)),
                        sigs[Len(sigs)], Len(sigs) - 1)

\* The matcher of the world whose archetypes are all created.
WorldMatcher == MatcherAfter(ArchSignatures)

\* Matcher::b[c]: the archetype ids whose signature holds component c.
MatcherB(c) == WorldMatcher.b[c]
\* Matcher::all.
MatcherAll == WorldMatcher.all

MatchAll(signature) == Matcher_MatchAll(WorldMatcher, signature)
MatchAny(signature) == Matcher_MatchAny(WorldMatcher, signature)
MatchNone(signature) == Matcher_MatchNone(WorldMatcher, signature)

Match(relation, signature) == Matcher_Match(WorldMatcher, relation, signature)

\* The queries of the model, all on index1 (the index of D.x), pre-matched:
\*   1: Query<D>            2: Query<A>{index1 >= 1}
\*   3: Query<D>{index1 >= 0, index1 <= 0}
\*   4: Query<B>{index1 >= 0}, which matches no archetype
QueryDefs == <<
    [relation |-> "ALL", signature |-> {ID_D}, filters |-> << >>],
    [relation |-> "ALL", signature |-> {ID_A},
     filters |-> << [op |-> "GE", rhs |-> 1] >>],
    [relation |-> "ALL", signature |-> {ID_D},
     filters |-> << [op |-> "GE", rhs |-> 0], [op |-> "LE", rhs |-> 0] >>],
    [relation |-> "ALL", signature |-> {ID_B},
     filters |-> << [op |-> "GE", rhs |-> 0] >>] >>

QueryIds == 1 .. Len(QueryDefs)
\* Cacher c is built by QueryDefs[c].Cache(); CacherIds are the cachers the
\* clients of the entity operations build.
CacherIds == {1, 2}

\* IQuery::aids after PreMatch.
QAids(q) == Match(QueryDefs[q].relation, QueryDefs[q].signature)
QFilters(q) == QueryDefs[q].filters

\* The content of index1: an entry per FieldProxy whose iterator is not end(),
\* and the entries no iterator points to any more.  Entries equal in value and
\* entity id are not told apart.
IndexEntries(S) ==
    { [val |-> S.rows[a][e].x, eid |-> S.rows[a][e].owner] :
        <<a, e>> \in { p \in Aids \X ShortIds : S.rows[p[1]][p[2]].bound } }
    \cup S.orphans

\* The entity ids an index operation enumerates for a filter.
RECURSIVE SortedEntries(_)
\* The std::multimap m of index1 in iteration order: by value, and entries of
\* one value in the order of their entity ids.
SortedEntries(es) ==
    IF es = {} THEN << >>
    ELSE LET m == CHOOSE x \in es : \A y \in es :
                      x.val < y.val \/ (x.val = y.val /\ x.eid <= y.eid)
         IN << m >> \o SortedEntries(es \ {m})
IndexMap(S) == SortedEntries(IndexEntries(S))

\* Iterators are positions 1 .. Len(m), and end() is Len(m) + 1.
MapBegin(m) == 1
MapEnd(m) == Len(m) + 1
lower_bound(m, rhs) == 1 + Cardinality({ i \in DOMAIN m : m[i].val < rhs })
upper_bound(m, rhs) == 1 + Cardinality({ i \in DOMAIN m : m[i].val <= rhs })

\* for (it = first; it != last; ++it) cb(it->second): the ids handed to a
\* callback that never stops, as far as end().  With last before first the
\* loop reaches end() without meeting last, and increments end().
IterateRange(m, first, last) ==
    { m[i].eid : i \in first .. ((IF first <= last THEN last ELSE MapEnd(m)) - 1) }
IncrementsEnd(first, last) == first > last

FilterEqual(S, rhs) ==
    LET m == IndexMap(S)
    IN IterateRange(m, lower_bound(m, rhs), upper_bound(m, rhs))
FilterNonEqual(S, rhs) ==
    LET m == IndexMap(S)
    IN IterateRange(m, MapBegin(m), lower_bound(m, rhs))
       \cup IterateRange(m, upper_bound(m, rhs), MapEnd(m))
FilterIn(S, rhs) == UNION { FilterEqual(S, v) : v \in rhs }
FilterLessThan(S, rhs) ==
    LET m == IndexMap(S) IN IterateRange(m, MapBegin(m), lower_bound(m, rhs))
FilterLessEqualThan(S, rhs) ==
    LET m == IndexMap(S) IN IterateRange(m, MapBegin(m), upper_bound(m, rhs))
FilterGreaterThan(S, rhs) ==
    LET m == IndexMap(S) IN IterateRange(m, upper_bound(m, rhs), MapEnd(m))
FilterGreaterEqualThan(S, rhs) ==
    LET m == IndexMap(S) IN IterateRange(m, lower_bound(m, rhs), MapEnd(m))
FilterBetween(S, rhs) ==
    LET m == IndexMap(S)
    IN IterateRange(m, lower_bound(m, rhs[1]), upper_bound(m, rhs[2]))
\* FilterBetween's loop increments end(): undefined behaviour.
FilterBetweenIncrementsEnd(S, rhs) ==
    LET m == IndexMap(S)
    IN IncrementsEnd(lower_bound(m, rhs[1]), upper_bound(m, rhs[2]))

\* IFilter::Execute: the ids handed to the callback, if it never stops.
FilterExecute(S, f) ==
    CASE f.op = "EQ" -> FilterEqual(S, f.rhs)
      [] f.op = "NE" -> FilterNonEqual(S, f.rhs)
      [] f.op = "IN" -> FilterIn(S, f.rhs)
      [] f.op = "LT" -> FilterLessThan(S, f.rhs)
      [] f.op = "LE" -> FilterLessEqualThan(S, f.rhs)
      [] f.op = "GT" -> FilterGreaterThan(S, f.rhs)
      [] f.op = "GE" -> FilterGreaterEqualThan(S, f.rhs)
      [] f.op = "BT" -> FilterBetween(S, f.rhs)

RECURSIVE applyFiltersFrom(_, _, _, _)
\* The callback keeps the enumerated ids that are in ans, and stops the
\* enumeration once it has kept them all; the loop ends once ans is empty.
applyFiltersFrom(S, filters, ans, start) ==
    IF start >= Len(filters) \/ ans = {} THEN ans
    ELSE applyFiltersFrom(S, filters, ans \cap FilterExecute(S, filters[start + 1]),
                          start + 1)

testFiltersSingleEntityId(S, filters, eid) ==
    applyFiltersFrom(S, filters, {eid}, 0) # {}

\* applyFilters with the initial collector of IQuery::ExecuteWithFilters.
applyFilters(S, filters, aids) ==
    applyFiltersFrom(S, filters,
        { eid \in FilterExecute(S, filters[1]) : UnpackX(eid) \in aids }, 1)

-----------------------------------------------------------------------------
(* The state record, and what an API call is seen to do. *)

St == [ archetypes |-> archetypes, matcher |-> matcher, ready |-> ready,
        qaids |-> qaids, qfilters |-> qfilters,
        ecursor |-> ecursor, alives |-> alives, cemQ |-> cemQ, cemBits |-> cemBits,
        cemBlocks |-> cemBlocks, blocks |-> blocks,
        toBornA |-> toBornA, toKillA |-> toKillA, rows |-> rows, orphans |-> orphans,
        toBornW |-> toBornW, toKillW |-> toKillW, callbacks |-> callbacks,
        nextCallbackId |-> nextCallbackId, icallbacks |-> icallbacks,
        inextCallbackId |-> inextCallbackId,
        cachers |-> cachers,
        \* IWorld::lastCreatedEntityId: unset outside DoNewEntity, and the stale
        \* id is never read while it is unset.
        lastCreatedEntityId |-> 0, lastCreatedEntityIdSet |-> FALSE,
        events |-> << >> ]

\* An invocation made by the library: of an initializer ("init"), of the
\* world's hooks ("created", "removed"), of a before-kill callback
\* ("beforeKill"), of component destructors ("destruct"), of an iteration
\* callback ("visit", with what the callback returned in stop).
Ev(kind, id, val, cb) ==
    [kind |-> kind, id |-> id, val |-> val, cb |-> cb, null |-> FALSE, stop |-> FALSE]
Visit(ref, stop) ==
    [kind |-> "visit", id |-> ref.id, val |-> 0, cb |-> NoCb, null |-> ref.null,
     stop |-> stop]
Log(S, ev) == [S EXCEPT !.events = Append(@, ev)]

\* What a lookup returned.
Returned(ref) == [Ev("return", ref.id, 0, NoCb) EXCEPT !.null = ref.null]

\* An exception leaving the call, and the end of the process.
Throw(what) == Ev("throw", 0, 0, what)
Crash(what) == Ev("crash", 0, 0, what)
\* The call that left S behind was left by an exception.
Threw(S) == S.events # << >> /\ S.events[Len(S.events)].kind = "throw"

\* A call: its name, the archetype, query or cacher it is made on (0 for a
\* call on the world), and what it returned (0 for void).
Op(name, on, ret) == [name |-> name, on |-> on, rev |-> FALSE, ret |-> ret]

-----------------------------------------------------------------------------
(* Cemetery. *)

NumRowsPerBlock == MaxNumEntitiesPerBlock

\* if (e >= bound) return false; return blocks[i]->test(j);
CemeteryContains(S, a, e) ==
    e < S.cemBlocks[a] * NumRowsPerBlock /\ e \in S.cemBits[a]

\* while (n > blocks.size()) blocks.push_back(...)
CemeteryReserve(S, a, n) ==
    IF n > S.cemBlocks[a] THEN [S EXCEPT !.cemBlocks[a] = n] ELSE S

\* Reserve(i + 1) with i = e / NumRowsPerBlock, rounded up to e's multiple.
CemeteryAddReservesCeil(S, a, e) ==
    LET i == e \div NumRowsPerBlock
        n == i + (IF e % NumRowsPerBlock # 0 THEN 1 ELSE 0)
    IN [CemeteryReserve(S, a, n) EXCEPT !.cemBits[a] = @ \cup {e},
                                        !.cemQ[a] = Append(@, e)]

\* Reserve(i + 1); blocks[i]->set(j); q.push_back(e);
CemeteryAdd(S, a, e) ==
    LET i == e \div NumRowsPerBlock
    IN [CemeteryReserve(S, a, i + 1) EXCEPT !.cemBits[a] = @ \cup {e},
                                            !.cemQ[a] = Append(@, e)]

\* Pop that takes the id added last: q.back(), q.pop_back().
CemeteryPopBack(S, a) ==
    LET e == S.cemQ[a][Len(S.cemQ[a])]
    IN [S |-> [S EXCEPT !.cemQ[a] = SubSeq(@, 1, Len(@) - 1), !.cemBits[a] = @ \ {e}],
        e |-> e]

\* Returns the state and the popped short id.
CemeteryPop(S, a) ==
    LET e == Head(S.cemQ[a])
    IN [S |-> [S EXCEPT !.cemQ[a] = Tail(@), !.cemBits[a] = @ \ {e}], e |-> e]

CemeterySize(S, a) == Len(S.cemQ[a])

CemeteryNumBlocks(S, a) == S.cemBlocks[a]

-----------------------------------------------------------------------------
(* Component D and its FieldProxy x, bound to index1. *)

\* A cell of zero bytes: the proxy's __index is nullptr (index FALSE).  bound
\* says that the proxy's iterator is not end().
ZeroCell == [x |-> 0, index |-> FALSE, bound |-> FALSE, owner |-> 0]

\* What a cell's bytes lose when they are overwritten without ~FieldProxy:
\* the index keeps the entry the lost iterator pointed to.
Forget(S, a, e) ==
    LET r == S.rows[a][e]
    IN IF r.bound THEN [S EXCEPT !.orphans = @ \cup {[val |-> r.x, eid |-> r.owner]}]
       ELSE S

\* std::fill_n(data, rowSize, 0).
ZeroRow(S, a, e) == [Forget(S, a, e) EXCEPT !.rows[a][e] = ZeroCell]

\* new (ptr) D(v): FieldProxy(v), then BindIndex(index1), whose Insert returns
\* end() unless the world's last created entity id is set.
ConstructD(S, a, e, v) ==
    [Forget(S, a, e) EXCEPT !.rows[a][e] =
        [x |-> v, index |-> TRUE, bound |-> S.lastCreatedEntityIdSet,
         owner |-> IF S.lastCreatedEntityIdSet THEN S.lastCreatedEntityId ELSE 0]]

\* ~D(): ~FieldProxyBase erases its entry if it is bound and its iterator is
\* not end().  The bytes of a destructed cell are not read again before the
\* next allocation zero-fills the row.
DestructComponents(S, a, e) ==
    Log([S EXCEPT !.rows[a][e] = ZeroCell], Ev("destruct", Pack(a, e), 0, NoCb))

-----------------------------------------------------------------------------
(* Cacher callbacks and the world's callback table. *)

\* A cacher that is not constructed.
NoCacher == [exists |-> FALSE, cache |-> EmptyMap, aids |-> {}, filters |-> << >>]

CacheInsert(S, c, key, ref) == [S EXCEPT !.cachers[c].cache = MapInsert(@, key, ref)]
CacheErase(S, c, key) == [S EXCEPT !.cachers[c].cache = MapErase(@, key)]

onEntityCreated(S, c, ref) ==
    IF Len(S.cachers[c].filters) > 0
       /\ ~testFiltersSingleEntityId(S, S.cachers[c].filters, ref.id)
    THEN S
    ELSE CacheInsert(S, c, ref.id, ref)

onEntityRemoved(S, c, ref) == CacheErase(S, c, ref.id)

\* The listener, were it to test the first filter only.
onIndexUpdatedFirstFilter(S, c, eid) ==
    IF UnpackX(eid) \notin S.cachers[c].aids THEN S
    ELSE IF testFiltersSingleEntityId(S, SubSeq(S.cachers[c].filters, 1, 1), eid)
         THEN CacheInsert(S, c, eid, Ref(eid))
         ELSE CacheErase(S, c, eid)

onIndexUpdated(S, c, eid) ==
    IF UnpackX(eid) \notin S.cachers[c].aids THEN S
    ELSE IF testFiltersSingleEntityId(S, S.cachers[c].filters, eid)
         THEN CacheInsert(S, c, eid, Ref(eid))
         ELSE CacheErase(S, c, eid)

\* What a callback of the model sees of the entity it is handed: whether
\* IsAlive holds for it (1) and whether index1 holds an entry of it (2).
SeenAlive == 1
SeenIndexed == 2
Sees(S, eid) ==
    LET a == UnpackX(eid)
        e == UnpackY(eid)
        alive == e < S.ecursor[a] /\ ~CemeteryContains(S, a, e)
                 /\ e \notin DOMAIN S.toBornA[a]
        indexed == \E en \in IndexEntries(S) : en.eid = eid
    IN Log(S, Ev("sees", eid, (IF alive THEN SeenAlive ELSE 0)
                              + (IF indexed THEN SeenIndexed ELSE 0), NoCb))

\* The component lists Cs... of the lifecycle callbacks a user registers.
\* The func of a callback is its owner: a cacher's id for the cacher's
\* lambdas, and -k for the user function registered with UserSigs[k].
UserSigs == << {ID_D}, {ID_A, ID_D}, {ID_B} >>
IsUserCallback(cb) == cb.owner < 0
UserSig(cb) == UserSigs[0 - cb.owner]

RECURSIVE RunCallbacks(_, _, _)
RunCallbacks(S, cbs, ref) ==
    IF cbs = << >> THEN S
    ELSE LET cb == Head(cbs)
             S1 == IF IsUserCallback(cb)
                   THEN Sees(Log(S, Ev("called", ref.id, cb.id, NoCb)), ref.id)
                   ELSE IF cb.flag = 0 THEN onEntityCreated(S, cb.owner, ref)
                   ELSE onEntityRemoved(S, cb.owner, ref)
         IN RunCallbacks(S1, Tail(cbs), ref)

\* callbackTable[flag][aid], in registration order.
CallbackTable(S, flag, aid) ==
    SelectSeq(S.callbacks, LAMBDA cb : cb.flag = flag /\ aid \in cb.aids)

TriggerCallbacks(S, aid, e, flag) ==
    RunCallbacks(S, CallbackTable(S, flag, aid), Ref(Pack(aid, e)))

WorldAfterEntityCreated(S, a, e) ==
    TriggerCallbacks(Log(S, Ev("created", Pack(a, e), 0, NoCb)), a, e, 0)

WorldBeforeEntityRemoved(S, a, e) ==
    TriggerCallbacks(Log(S, Ev("removed", Pack(a, e), 0, NoCb)), a, e, 1)

PushCallback(S, flag, aids, owner) ==
    [S EXCEPT !.nextCallbackId = @ + 1,
              !.callbacks = Append(@, [id |-> S.nextCallbackId, flag |-> flag,
                                       aids |-> aids, owner |-> owner])]

\* Registration keyed by the archetypes that match ANY of Cs.
PushCallbackByAnyComponent(S, flag, k) ==
    IF S.archetypes = << >> THEN Log(S, Throw("RegistrationTooEarly"))
    ELSE PushCallback(S, flag, Matcher_MatchAny(S.matcher, UserSigs[k]), 0 - k)

\* Registration that does not look whether an archetype exists.
PushCallbackByComponentsAnytime(S, flag, k) ==
    PushCallback(S, flag, Matcher_MatchAll(S.matcher, UserSigs[k]), 0 - k)

\* World::PushCallbackByComponents<Cs...>(func, flag), Cs = UserSigs[k]
PushCallbackByComponents(S, flag, k) ==
    IF S.archetypes = << >> THEN Log(S, Throw("RegistrationTooEarly"))
    ELSE PushCallback(S, flag, Matcher_MatchAll(S.matcher, UserSigs[k]), 0 - k)

-----------------------------------------------------------------------------
(* IArchetype. *)

IArchetype_IsAlive(S, a, e) ==
    e < S.ecursor[a] /\ ~CemeteryContains(S, a, e) /\ e \notin DOMAIN S.toBornA[a]

\* size_t arithmetic: a negative result stands for the wrapped value, 2^64
\* more, which is no count of entities.
IArchetype_NumEntities(S, a) ==
    S.ecursor[a] - CemeterySize(S, a) - Cardinality(DOMAIN S.toBornA[a])

IArchetype_UncheckedGet(a, e) == Ref(Pack(a, e))

IArchetype_Get(S, a, e) ==
    IF ~IArchetype_IsAlive(S, a, e) THEN NullEntityReference
    ELSE IArchetype_UncheckedGet(a, e)

\* AllocateForNewEntity that allocates a block when e > numRows * blocks.size().
AllocateForNewEntityLate(S, a) ==
    IF CemeterySize(S, a) > 0
    THEN LET p == CemeteryPop(S, a)
         IN [S |-> ZeroRow(p.S, a, p.e), e |-> p.e]
    ELSE LET e == S.ecursor[a]
              S1 == [S EXCEPT !.ecursor[a] = @ + 1]
         IN [S |-> IF e > MaxNumEntitiesPerBlock * S1.blocks[a]
                   THEN [S1 EXCEPT !.blocks[a] = @ + 1]
                   ELSE S1,
             e |-> e]

\* Returns the state and the allocated short id.
AllocateForNewEntity(S, a) ==
    IF CemeterySize(S, a) > 0
    THEN LET p == CemeteryPop(S, a)
         IN [S |-> ZeroRow(p.S, a, p.e), e |-> p.e]
    ELSE LET e == S.ecursor[a]
              S1 == [S EXCEPT !.ecursor[a] = @ + 1]
         IN [S |-> IF e >= MaxNumEntitiesPerBlock * S1.blocks[a]
                   THEN [S1 EXCEPT !.blocks[a] = @ + 1]
                   ELSE S1,
             e |-> e]

IArchetype_NumBlocks(S, a) == S.blocks[a]

\* Reserve with numBlocks = numEntities / numRows, rounded down.
IArchetype_ReserveRoundedDown(S, a, numEntities) ==
    LET numBlocks == numEntities \div MaxNumEntitiesPerBlock
        S1 == IF numBlocks > S.blocks[a] THEN [S EXCEPT !.blocks[a] = numBlocks]
              ELSE S
    IN CemeteryReserve(S1, a, numBlocks)

\* IArchetype::Reserve: blocks for numEntities rows, and as many in the
\* cemetery.
IArchetype_Reserve(S, a, numEntities) ==
    LET i == numEntities \div MaxNumEntitiesPerBlock
        j == numEntities % MaxNumEntitiesPerBlock
        numBlocks == i + (IF j # 0 THEN 1 ELSE 0)
        S1 == IF numBlocks > S.blocks[a] THEN [S EXCEPT !.blocks[a] = numBlocks]
              ELSE S
    IN CemeteryReserve(S1, a, numBlocks)

\* Returns the state and the id of the entity to be born.
IArchetype_DelayedNewEntity(S, a, initializer) ==
    LET p == AllocateForNewEntity(S, a)
    IN [S |-> [p.S EXCEPT !.toBornA[a] = MapInsert(@, p.e, initializer),
                          !.toBornW = Append(@, Pack(a, p.e))],
        e |-> p.e]

CanAllocateIn(S, a) == Len(S.cemQ[a]) > 0 \/ S.ecursor[a] < MaxCursor - a

\* An initializer that constructs D with 0 and then calls
\* a.DelayedNewEntity with itself, for as long as its archetype can allocate:
\* a callback that enqueues finitely many creations.
ChainInit == MaxVal + 1

\* The initializers of the model construct D with a value v: the default one,
\* ConstructComponents, is the one with v = 0.
Initializer(S, a, e, v) ==
    IF v = ChainInit
    THEN LET S1 == ConstructD(Log(S, Ev("init", Pack(a, e), v, NoCb)), a, e, 0)
             p == IArchetype_DelayedNewEntity(S1, a, ChainInit)
         IN IF CanAllocateIn(S1, a)
            THEN Log(p.S, Ev("enqueued", Pack(a, p.e), v, NoCb))
            ELSE S1
    ELSE ConstructD(Log(S, Ev("init", Pack(a, e), v, NoCb)), a, e, v)

DoNewEntity(S, a, e, initializer) ==
    LET S1 == [S EXCEPT !.alives[a] = @ \cup {e}]
        S2 == [S1 EXCEPT !.lastCreatedEntityId = Pack(a, e),
                         !.lastCreatedEntityIdSet = TRUE]
        S3 == Initializer(S2, a, e, initializer)
        S4 == [S3 EXCEPT !.lastCreatedEntityIdSet = FALSE]
    IN WorldAfterEntityCreated(S4, a, e)

ApplyDelayedNewEntity(S, a, e) ==
    IF e \notin DOMAIN S.toBornA[a] THEN S
    ELSE LET S1 == DoNewEntity(S, a, e, S.toBornA[a][e])
         IN [S1 EXCEPT !.toBornA[a] = MapErase(@, e)]

\* beforeKillPtr points to a callback.
IArchetype_DelayedKill(S, a, e, beforeKillPtr) ==
    IF IArchetype_IsAlive(S, a, e)
    THEN [S EXCEPT !.toKillA[a] = MapInsert(@, e, beforeKillPtr),
                   !.toKillW = Append(@, Pack(a, e))]
    ELSE S

\* A before-kill callback that calls DelayedKill, with itself, on every entity
\* of its archetype that is alive, the one being killed included.  The insert
\* it makes into toKill may rehash the map while ApplyDelayedKill holds an
\* iterator; the iterator is a pointer to the node, which the rehash keeps,
\* and erase(it) looks the node up in the table as it then is.
ChainCb == "chain"

RECURSIVE DelayedKillAll(_, _, _, _)
DelayedKillAll(S, a, es, cb) ==
    IF es = {} THEN S
    ELSE LET e == CHOOSE x \in es : \A y \in es : x <= y
         IN DelayedKillAll(
                Log(IArchetype_DelayedKill(S, a, e, cb), Ev("enqueued", Pack(a, e), 0, cb)),
                a, es \ {e}, cb)

\* What the call (*beforeKillPtr)(ref) does besides being seen.
BeforeKilled(S, a, cb) ==
    IF cb = ChainCb
    THEN DelayedKillAll(S, a, { e \in ShortIds : IArchetype_IsAlive(S, a, e) }, cb)
    ELSE S

\* IArchetype::Kill, had it not returned early for an id in the cemetery.
IArchetype_KillTheDeadToo(S, a, e, beforeKillPtr) ==
    IF e >= S.ecursor[a] THEN S
    ELSE LET S1 == IF beforeKillPtr # NoCb
                   THEN Sees(Log(S, Ev("beforeKill", Pack(a, e), 0, beforeKillPtr)),
                             Pack(a, e))
                   ELSE S
             S2 == WorldBeforeEntityRemoved(S1, a, e)
             S3 == DestructComponents(S2, a, e)
             S4 == CemeteryAdd(S3, a, e)
         IN [S4 EXCEPT !.alives[a] = @ \ {e}]

\* IArchetype::Kill, were the components destructed and the id buried before
\* the callbacks run.
IArchetype_KillBuriesFirst(S, a, e, beforeKillPtr) ==
    IF e >= S.ecursor[a] \/ CemeteryContains(S, a, e) THEN S
    ELSE LET S0 == CemeteryAdd(DestructComponents(S, a, e), a, e)
             S1 == IF beforeKillPtr # NoCb
                   THEN Sees(Log(S0, Ev("beforeKill", Pack(a, e), 0, beforeKillPtr)),
                             Pack(a, e))
                   ELSE S0
             S2 == WorldBeforeEntityRemoved(S1, a, e)
         IN [S2 EXCEPT !.alives[a] = @ \ {e}]

IArchetype_Kill(S, a, e, beforeKillPtr) ==
    IF e >= S.ecursor[a] \/ CemeteryContains(S, a, e) THEN S
    \* (*beforeKillPtr)(ref) on a std::function without target
    ELSE IF beforeKillPtr = EmptyFn THEN Log(S, Throw("bad_function_call"))
    ELSE LET S1 == IF beforeKillPtr # NoCb
                   THEN BeforeKilled(
                            Sees(Log(S, Ev("beforeKill", Pack(a, e), 0, beforeKillPtr)),
                                 Pack(a, e)),
                            a, beforeKillPtr)
                   ELSE S
             S2 == WorldBeforeEntityRemoved(S1, a, e)
             S3 == DestructComponents(S2, a, e)
             S4 == CemeteryAdd(S3, a, e)
         IN [S4 EXCEPT !.alives[a] = @ \ {e}]

\* What  const auto& callback = *beforeKillPtr; toKill.insert({e, callback})
\* can do when beforeKillPtr is nullptr: the read through the null pointer
\* ends the process, or it yields a std::function without target.
NullDerefOutcomes == {"crash", "empty"}

\* IArchetype::DelayedKill(e, nullptr)
IArchetype_DelayedKillNull(S, a, e, outcome) ==
    IF ~IArchetype_IsAlive(S, a, e) THEN S
    ELSE IF outcome = "crash" THEN Log(S, Crash("null dereference"))
    ELSE [S EXCEPT !.toKillA[a] = MapInsert(@, e, EmptyFn),
                   !.toKillW = Append(@, Pack(a, e))]

\* ApplyDelayedKill, did it leave alone what is dead already.
ApplyDelayedKillOfTheLiving(S, a, e) ==
    IF e \notin DOMAIN S.toKillA[a] \/ CemeteryContains(S, a, e) THEN S
    ELSE LET S1 == IArchetype_Kill(S, a, e, S.toKillA[a][e])
         IN IF Threw(S1) THEN S1
            ELSE [S1 EXCEPT !.toKillA[a] = MapErase(@, e)]

ApplyDelayedKill(S, a, e) ==
    IF e \notin DOMAIN S.toKillA[a] THEN S
    ELSE LET S1 == IArchetype_Kill(S, a, e, S.toKillA[a][e])
         IN IF Threw(S1) THEN S1
            ELSE [S1 EXCEPT !.toKillA[a] = MapErase(@, e)]

\* Returns the state and the id of the created entity.
IArchetype_NewEntity(S, a, initializer) ==
    LET p == AllocateForNewEntity(S, a)
    IN [S |-> DoNewEntity(p.S, a, p.e, initializer), e |-> p.e]


\* a.NewEntity(initializer) with an initializer that creates an entity of
\* archetype a2 by a2.NewEntity(), before or after it constructs D with v.
\* Returns the state and the short ids of the two entities.
IArchetype_NewEntityNesting(S, a, v, a2, createsFirst) ==
    LET p == AllocateForNewEntity(S, a)
        e == p.e
        S1 == [p.S EXCEPT !.alives[a] = @ \cup {e}]
        S2 == [S1 EXCEPT !.lastCreatedEntityId = Pack(a, e),
                         !.lastCreatedEntityIdSet = TRUE]
        S3 == Log(S2, Ev("init", Pack(a, e), v, NoCb))
        q == IF createsFirst
             THEN LET n == IArchetype_NewEntity(S3, a2, 0)
                  IN [S |-> ConstructD(n.S, a, e, v), e |-> n.e]
             ELSE IArchetype_NewEntity(ConstructD(S3, a, e, v), a2, 0)
        S4 == [q.S EXCEPT !.lastCreatedEntityIdSet = FALSE]
    IN [S |-> WorldAfterEntityCreated(S4, a, e), e |-> e, e2 |-> q.e]

-----------------------------------------------------------------------------
(* World. *)

World_IsAlive(S, eid) ==
    IF UnpackX(eid) >= Len(S.archetypes) THEN FALSE
    ELSE IArchetype_IsAlive(S, UnpackX(eid), UnpackY(eid))

\* World::Get, had it answered through UncheckedGet.
World_GetWithoutCheck(S, eid) ==
    IF UnpackX(eid) >= Len(S.archetypes) THEN NullEntityReference
    ELSE IArchetype_UncheckedGet(UnpackX(eid), UnpackY(eid))

\* EntityReference::IsAlive
EntityReference_IsAlive(S, ref) ==
    ~ref.null /\ IArchetype_IsAlive(S, UnpackX(ref.id), UnpackY(ref.id))

World_Get(S, eid) ==
    IF UnpackX(eid) >= Len(S.archetypes) THEN NullEntityReference
    ELSE IArchetype_Get(S, UnpackX(eid), UnpackY(eid))

World_Kill(S, eid) ==
    IF UnpackX(eid) >= Len(S.archetypes) THEN S
    ELSE IArchetype_Kill(S, UnpackX(eid), UnpackY(eid), NoCb)

World_DelayedKill(S, eid, beforeKilled) ==
    IF UnpackX(eid) >= Len(S.archetypes) THEN S
    ELSE IArchetype_DelayedKill(S, UnpackX(eid), UnpackY(eid), beforeKilled)

\* World::NewArchetype<Components...>()
World_NewArchetype(S, signature) ==
    [S EXCEPT !.archetypes = Append(@, signature),
              !.matcher = PutArchetypeId(@, signature, Len(S.archetypes))]

\* The width of the matcher's bitsets: 4096 in the source, scaled down to the
\* archetypes of the model.
MaxNumArchetypesPerWorld == MaxArchetypes

\* What  all[aid] = 1  can do when aid is not below the width of the bitset
\* (std::bitset::operator[] does not check): the process ends, the bit is
\* written into the member that follows all (b[0], at aid minus the width),
\* or nothing that is read again is written.
BeyondBitsetOutcomes == {"crash", "adjacent", "none"}

\* World::NewArchetype<Components...>() for component ids and a number of
\* archetypes of any size: ComponentSequence::GetSignature throws from
\* signature.set(x) on an id beyond the signature, before anything is
\* registered; Matcher::PutArchetypeId writes all[aid] unchecked, and throws
\* from b[i].set(aid) for the first component of the signature.
World_NewArchetypeAny(S, cids, outcome) ==
    LET aid == Len(S.archetypes)
    IN IF \E c \in cids : c >= MaxNumComponents
       THEN Log(S, Throw("out_of_range"))
       ELSE IF aid < MaxNumArchetypesPerWorld THEN World_NewArchetype(S, cids)
       ELSE IF outcome = "crash" THEN Log(S, Crash("all[aid] beyond the bitset"))
       ELSE LET S1 == IF outcome = "adjacent"
                      THEN [S EXCEPT !.matcher.b[0] =
                                        @ \cup {aid - MaxNumArchetypesPerWorld}]
                      ELSE S
            IN IF cids # {} THEN Log(S1, Throw("out_of_range"))
               ELSE [S1 EXCEPT !.archetypes = Append(@, cids)]

\* World::DelayedKill(eid), which hands nullptr on.
World_DelayedKillNull(S, eid, outcome) ==
    IF UnpackX(eid) >= Len(S.archetypes) THEN S
    ELSE IArchetype_DelayedKillNull(S, UnpackX(eid), UnpackY(eid), outcome)

RECURSIVE World_ApplyDelayedKills(_)
World_ApplyDelayedKills(S) ==
    IF S.toKillW = << >> THEN S
    ELSE LET eid == Head(S.toKillW)
             S1 == [S EXCEPT !.toKillW = Tail(@)]
             S2 == IF UnpackX(eid) < Len(S.archetypes)
                   THEN ApplyDelayedKill(S1, UnpackX(eid), UnpackY(eid))
                   ELSE S1
         IN IF Threw(S2) THEN S2 ELSE World_ApplyDelayedKills(S2)

RECURSIVE ApplyToBornSorted(_, _)
ApplyToBornSorted(S, eids) ==
    IF eids = << >> THEN S
    ELSE ApplyToBornSorted(
             IF UnpackX(Head(eids)) < Len(S.archetypes)
             THEN ApplyDelayedNewEntity(S, UnpackX(Head(eids)), UnpackY(Head(eids)))
             ELSE S,
             Tail(eids))

\* World::ApplyDelayedNewEntities, had it applied the to-born entities
\* archetype by archetype instead of popping the world's queue.
ApplyDelayedNewEntitiesByArchetype(S) ==
    ApplyToBornSorted([S EXCEPT !.toBornW = << >>], SortedSeq(Range(S.toBornW)))

RECURSIVE World_ApplyDelayedNewEntities(_)
World_ApplyDelayedNewEntities(S) ==
    IF S.toBornW = << >> THEN S
    ELSE LET eid == Head(S.toBornW)
             S1 == [S EXCEPT !.toBornW = Tail(@)]
         IN World_ApplyDelayedNewEntities(
                IF UnpackX(eid) < Len(S.archetypes)
                THEN ApplyDelayedNewEntity(S1, UnpackX(eid), UnpackY(eid))
                ELSE S1)

-----------------------------------------------------------------------------
(* FieldProxy assignment and the index's update listeners. *)

RECURSIVE OnUpdate(_, _, _)
\* IFieldIndexRoot::OnUpdate: every listener, each a cacher's onIndexUpdated.
OnUpdate(S, listeners, eid) ==
    IF listeners = {} THEN S
    ELSE LET l == CHOOSE x \in listeners : TRUE
         IN OnUpdate(onIndexUpdated(S, l.owner, eid), listeners \ {l}, eid)

\* MapBasedFieldIndex::Update: erase, insert under the same entity id, notify.
IndexUpdate(S, a, e, v) ==
    LET eid == S.rows[a][e].owner
    IN OnUpdate([S EXCEPT !.rows[a][e].x = v], S.icallbacks, eid)

\* FieldProxyBase::Set on the D.x of row (a, e): it throws on a proxy that
\* was never bound, and nothing is stored through a proxy whose iterator is
\* end().
FieldProxy_Set(S, a, e, v) ==
    IF ~S.rows[a][e].index
    THEN Log(S, Throw("FieldProxy's BindIndex function may not run"))
    ELSE IF ~S.rows[a][e].bound THEN S
    ELSE IndexUpdate(S, a, e, v)

-----------------------------------------------------------------------------
(* Iteration.  The callback of the model returns true on the references   *)
(* whose id is in stopIds, and changes nothing.                            *)

RECURSIVE Scan(_, _, _)
\* for (ref : refs) if (cb(ref)) break;
Scan(S, refs, stopIds) ==
    IF refs = << >> THEN S
    ELSE LET ref == Head(refs)
             stop == ref.id \in stopIds
             S1 == Log(S, Visit(ref, stop))
         IN IF stop THEN S1 ELSE Scan(S1, Tail(refs), stopIds)

\* The short ids ForEachUntilForward hands on, in the order of the set alives.
Visitable(S, a) ==
    SelectSeq(SortedSeq(S.alives[a]),
              LAMBDA e : ~CemeteryContains(S, a, e) /\ e \notin DOMAIN S.toBornA[a])

RefsOf(a, es) == [ i \in 1 .. Len(es) |-> IArchetype_UncheckedGet(a, es[i]) ]

ForEachUntilForward(S, a, stopIds) == Scan(S, RefsOf(a, Visitable(S, a)), stopIds)

ForEachUntilBackward(S, a, stopIds) ==
    Scan(S, RefsOf(a, Reverse(Visitable(S, a))), stopIds)

IArchetype_ForEachUntil(S, a, stopIds, reversed) ==
    IF ~reversed THEN ForEachUntilForward(S, a, stopIds)
    ELSE ForEachUntilBackward(S, a, stopIds)

\* IQuery::orderedAids.
OrderedAids(S, q) == SortedSeq(S.qaids[q])

RECURSIVE ExecuteForAllForward(_, _, _)
\* for (aid : orderedAids) archetypes[aid]->ForEachUntilForward(cb);
ExecuteForAllForward(S, aids, stopIds) ==
    IF aids = << >> THEN S
    ELSE ExecuteForAllForward(ForEachUntilForward(S, Head(aids), stopIds),
                              Tail(aids), stopIds)

RECURSIVE ExecuteForAllBackward(_, _, _)
\* aids is orderedAids reversed.
ExecuteForAllBackward(S, aids, stopIds) ==
    IF aids = << >> THEN S
    ELSE ExecuteForAllBackward(ForEachUntilBackward(S, Head(aids), stopIds),
                               Tail(aids), stopIds)

ExecuteForAll(S, q, stopIds, reversed) ==
    IF ~reversed THEN ExecuteForAllForward(S, OrderedAids(S, q), stopIds)
    ELSE ExecuteForAllBackward(S, Reverse(OrderedAids(S, q)), stopIds)

\* The liveness-checked references of a sorted set of entity ids.
CheckedRefs(S, eids) ==
    [ i \in 1 .. Len(eids) |-> IArchetype_Get(S, UnpackX(eids[i]), UnpackY(eids[i])) ]

ExecuteWithinFilteredSet(S, st, stopIds, reversed) ==
    IF ~reversed THEN Scan(S, CheckedRefs(S, SortedSeq(st)), stopIds)
    ELSE Scan(S, CheckedRefs(S, Reverse(SortedSeq(st))), stopIds)

ExecuteWithFilters(S, q, stopIds, reversed) ==
    ExecuteWithinFilteredSet(S, applyFilters(S, S.qfilters[q], S.qaids[q]), stopIds,
                             reversed)

\* IQuery::Where(f) and IQuery::ClearFilters, on the query's filter list.
IQuery_Where(filters, f) == Append(filters, f)
IQuery_ClearFilters(filters) == << >>

\* What a filtered query arrives at: the set of entity ids st, or the outcome
\* of incrementing end().
Arrived(ans) == [ans |-> ans, error |-> "none"]
Derailed(outcome) == [ans |-> {}, error |-> outcome]

RECURSIVE applyFiltersFromAny(_, _, _, _, _)
\* applyFiltersFrom over filters of any bounds: a FilterBetween whose first
\* bound lies behind its second one runs into end() unless the callback has
\* stopped it before, which it does once it has met every id of ans.
applyFiltersFromAny(S, filters, ans, start, outcome) ==
    IF start >= Len(filters) \/ ans = {} THEN Arrived(ans)
    ELSE LET f == filters[start + 1]
         IN IF /\ f.op = "BT"
               /\ FilterBetweenIncrementsEnd(S, f.rhs)
               /\ ~(ans \subseteq FilterExecute(S, f))
            THEN Derailed(outcome)
            ELSE applyFiltersFromAny(S, filters, ans \cap FilterExecute(S, f),
                                     start + 1, outcome)

\* The ids ExecuteForAll visits, and the set st of ExecuteWithFilters, whose
\* initial collector never stops the first filter.
QueryEntities(S, aids, filters, outcome) ==
    IF filters = << >>
    THEN Arrived({ Pack(a, e) : <<a, e>> \in
                     { p \in aids \X ShortIds : p[2] \in Range(Visitable(S, p[1])) } })
    ELSE IF filters[1].op = "BT" /\ FilterBetweenIncrementsEnd(S, filters[1].rhs)
    THEN Derailed(outcome)
    ELSE applyFiltersFromAny(S, filters,
             { eid \in FilterExecute(S, filters[1]) : UnpackX(eid) \in aids }, 1,
             outcome)

\* Matcher::MatchAndStore: the answer is a set of its own, which
\* PutArchetypeId does not write to.
MatchAndStore(S, relation, signature) == Matcher_Match(S.matcher, relation, signature)

\* PreMatch, did it match again on a query that is ready.
IQuery_PreMatchAgain(S, q) ==
    IF S.archetypes = << >> THEN Log(S, Throw("PreMatchBeforeArchetypes"))
    ELSE [S EXCEPT !.ready[q] = TRUE,
                   !.qaids[q] = MatchAndStore(S, QueryDefs[q].relation,
                                              QueryDefs[q].signature)]

\* IQuery::PreMatch.  The matched set it stores is QAids(q) when every
\* archetype of the model is created.
IQuery_PreMatch(S, q) ==
    IF S.ready[q] THEN S
    ELSE IF S.archetypes = << >> THEN Log(S, Throw("PreMatchBeforeArchetypes"))
    ELSE [S EXCEPT !.ready[q] = TRUE,
                   !.qaids[q] = MatchAndStore(S, QueryDefs[q].relation,
                                              QueryDefs[q].signature)]

\* q.Where(f) and q.ClearFilters()
Query_Where(S, q, f) == [S EXCEPT !.qfilters[q] = IQuery_Where(@, f)]
Query_ClearFilters(S, q) == [S EXCEPT !.qfilters[q] = IQuery_ClearFilters(@)]

RECURSIVE ExecuteWithinFilteredSetKilling(_, _, _)
\* ExecuteWithinFilteredSetForward / Backward over the ids of eids, with the
\* callback  [&](EntityReference&) { w.Kill(victim); return false; }.
ExecuteWithinFilteredSetKilling(S, eids, victim) ==
    IF eids = << >> THEN S
    ELSE LET eid == Head(eids)
             ref == IArchetype_Get(S, UnpackX(eid), UnpackY(eid))
             S1 == World_Kill(Log(S, Visit(ref, FALSE)), victim)
         IN ExecuteWithinFilteredSetKilling(S1, Tail(eids), victim)

\* IQuery::ForEach of a ready query with filters, with the killing callback.
IQuery_ForEachKilling(S, q, victim, reversed) ==
    IF S.qaids[q] = {} THEN S
    ELSE LET st == SortedSeq(applyFilters(S, S.qfilters[q], S.qaids[q]))
         IN ExecuteWithinFilteredSetKilling(
                S, IF reversed THEN Reverse(st) ELSE st, victim)

IQuery_ForEachUntil(S, q, stopIds, reversed) ==
    IF ~S.ready[q] THEN Log(S, Throw("QueryNotReady"))
    ELSE IF S.qaids[q] = {} THEN S
    ELSE IF Len(S.qfilters[q]) = 0 THEN ExecuteForAll(S, q, stopIds, reversed)
    ELSE ExecuteWithFilters(S, q, stopIds, reversed)

\* Cacher<>::ForEachUntilHelper: the cache in the order of its keys.
Cacher_ForEachUntil(S, c, stopIds, reversed) ==
    LET keys == SortedSeq(DOMAIN S.cachers[c].cache)
        refs == [ i \in 1 .. Len(keys) |-> S.cachers[c].cache[keys[i]] ]
    IN IF ~reversed THEN Scan(S, refs, stopIds) ELSE Scan(S, Reverse(refs), stopIds)

\* The references a call hands to a callback that never returns true.
Visited(S1) == [ i \in 1 .. Len(S1.events) |-> [null |-> S1.events[i].null,
                                                 id |-> S1.events[i].id] ]
Quiet(S) == [S EXCEPT !.events = << >>]
ArchetypeVisits(S, a, reversed) == Visited(IArchetype_ForEachUntil(Quiet(S), a, {}, reversed))
QueryVisits(S, q, reversed) == Visited(IQuery_ForEachUntil(Quiet(S), q, {}, reversed))
CacherVisits(S, c, reversed) == Visited(Cacher_ForEachUntil(Quiet(S), c, {}, reversed))

\* vec after a call whose callback pushes the reference unless the tester,
\* which is true on the ids of testerIds, stops it.
Pushed(S1) ==
    LET ps == SelectSeq(S1.events, LAMBDA ev : ev.kind = "visit" /\ ~ev.stop)
    IN [ i \in 1 .. Len(ps) |-> [null |-> ps[i].null, id |-> ps[i].id] ]

IQuery_Collect(S, q, reversed) ==
    Pushed(IQuery_ForEachUntil(Quiet(S), q, {}, reversed))
IQuery_CollectUntil(S, q, testerIds, reversed) ==
    Pushed(IQuery_ForEachUntil(Quiet(S), q, testerIds, reversed))
ICacher_Collect(S, c, reversed) ==
    Pushed(Cacher_ForEachUntil(Quiet(S), c, {}, reversed))
ICacher_CollectUntil(S, c, testerIds, reversed) ==
    Pushed(Cacher_ForEachUntil(Quiet(S), c, testerIds, reversed))

-----------------------------------------------------------------------------
(* ICacher. *)

RECURSIVE InsertAll(_, _, _)
InsertAll(S, c, refs) ==
    IF refs = << >> THEN S
    ELSE InsertAll(CacheInsert(S, c, Head(refs).id, Head(refs)), c, Tail(refs))

SetupCallbacksWatchingEntities(S, c) ==
    PushCallback(PushCallback(S, 0, S.cachers[c].aids, c), 1, S.cachers[c].aids, c)

\* IFieldIndexRoot::OnIndexValueUpdated of index1, for a listener of cacher c
OnIndexValueUpdated(S, c) ==
    [S EXCEPT !.inextCallbackId = @ + 1,
              !.icallbacks = @ \cup {[id |-> S.inextCallbackId, owner |-> c]}]

\* The distinct indexes of the filters; the filters of the model are all on
\* index1.
IndexPtrs(filters) == { "index1" : i \in 1 .. Len(filters) }

RECURSIVE RegisterOnEach(_, _, _)
RegisterOnEach(S, c, idxs) ==
    IF idxs = {} THEN S
    ELSE LET idx == CHOOSE x \in idxs : TRUE
         IN RegisterOnEach(OnIndexValueUpdated(S, c), c, idxs \ {idx})

\* A listener for every filter, were the indexes not grouped.
SetupCallbacksPerFilter(S, c) ==
    [S EXCEPT !.inextCallbackId = @ + Len(S.cachers[c].filters),
              !.icallbacks = @ \cup { [id |-> S.inextCallbackId + i - 1, owner |-> c] :
                                       i \in 1 .. Len(S.cachers[c].filters) }]

\* One listener on each distinct index of the filters.
SetupCallbacksWatchingIndexes(S, c) ==
    IF Len(S.cachers[c].filters) = 0 THEN S
    ELSE RegisterOnEach(S, c, IndexPtrs(S.cachers[c].filters))

\* Cacher<>::Cacher, that is ICacher::Setup, of the cacher built by query c.
ICacher_Setup(S, c) ==
    LET S0 == [S EXCEPT !.cachers[c] = [exists |-> TRUE, cache |-> EmptyMap,
                                        aids |-> S.qaids[c],
                                        filters |-> S.qfilters[c]]]
    IN IF S0.cachers[c].aids = {} THEN S0
       ELSE SetupCallbacksWatchingIndexes(
                SetupCallbacksWatchingEntities(
                    InsertAll(S0, c, QueryVisits(S0, c, FALSE)), c), c)

\* ICacher::ecbs and ICacher::icbs: the ids Setup was handed out.
Ecbs(S, c) ==
    LET own == SelectSeq(S.callbacks, LAMBDA cb : cb.owner = c)
    IN { own[i].id : i \in 1 .. Len(own) }
Icbs(S, c) == { l.id : l \in { x \in S.icallbacks : x.owner = c } }

\* World::RemoveCallback, for a set of ids
World_RemoveCallbacks(S, ids) ==
    [S EXCEPT !.callbacks = SelectSeq(@, LAMBDA cb : cb.id \notin ids)]

\* IFieldIndexRoot::RemoveOnValueUpdatedCallback of index1, for a set of ids
RemoveOnValueUpdatedCallbacks(S, ids) ==
    [S EXCEPT !.icallbacks = { l \in @ : l.id \notin ids }]

ICacher_ClearCallbacks(S, c) ==
    World_RemoveCallbacks(RemoveOnValueUpdatedCallbacks(S, Icbs(S, c)), Ecbs(S, c))

\* ~ICacher: the cacher and its container are gone.
ICacher_Destroy(S, c) ==
    [ICacher_ClearCallbacks(S, c)
        EXCEPT !.cachers[c] = NoCacher]

World_NumCallbacks(S) == Len(S.callbacks)
IFieldIndexRoot_NumCallbacks(S) == Cardinality(S.icallbacks)

\* What  aids->empty()  can do in ICacher::Setup when aids is the null
\* shared_ptr of a query that is not pre-matched: the read through the null
\* pointer ends the process, or it yields an answer.
NullAidsOutcomes == {"crash", "empty", "nonempty"}

\* Cacher<>::Cacher on a query that is not ready.  When q.ForEach throws, the
\* constructor is left and ~ICacher clears no callback.
ICacher_SetupUnready(S, c, outcome) ==
    CASE outcome = "crash" -> Log(S, Crash("null dereference"))
      [] outcome = "empty" ->
           [S EXCEPT !.cachers[c] = [exists |-> TRUE, cache |-> EmptyMap,
                                     aids |-> {}, filters |-> S.qfilters[c]]]
      [] outcome = "nonempty" -> IQuery_ForEachUntil(S, c, {}, FALSE)

\* What incrementing end() of a std::multimap can do: the read through the
\* header node ends the process, or the iterator goes round the tree and the
\* loop never meets its bound.
IncrementEndOutcomes == {"crash", "endless loop"}

RECURSIVE LogVisits(_, _)
LogVisits(S, ids) ==
    IF ids = << >> THEN S
    ELSE LogVisits(Log(S, Visit(Ref(Head(ids)), FALSE)), Tail(ids))

\* IFilter::Execute(cb) with a callback that never stops.
IFilter_Execute(S, f, outcome) ==
    LET S1 == LogVisits(S, SortedSeq(FilterExecute(S, f)))
    IN IF f.op = "BT" /\ FilterBetweenIncrementsEnd(S, f.rhs)
       THEN Log(S1, Crash(outcome))
       ELSE S1

-----------------------------------------------------------------------------
(* History of the calls, kept beside the program's state. *)

\* The ids IArchetype::Kill went through with during a call, in order.
KilledIn(evs) ==
    LET ks == SelectSeq(evs, LAMBDA ev : ev.kind = "removed")
    IN [ i \in 1 .. Len(ks) |-> ks[i].id ]

MapEraseAll(m, ks) == [ x \in (DOMAIN m) \ ks |-> m[x] ]
MapOverwrite(m, k, v) == (k :> v) @@ m

\* deadOrder after a call that allocated the ids in allocated and killed the
\* ids of killed, in that order.
DeadOrderAfter(allocated, killed) ==
    [ a \in Aids |->
        SelectSeq(deadOrder[a], LAMBDA e : Pack(a, e) \notin allocated)
        \o LET k == SelectSeq(killed, LAMBDA eid : UnpackX(eid) = a)
           IN [ i \in 1 .. Len(k) |-> UnpackY(k[i]) ] ]

\* Writes the state a call leaves behind.  History that a call changes in
\* its own way (hb, hk, pb, pk) is given by the action.
Commit(S, allocated, hb, hk, pb, pk) ==
    /\ archetypes' = S.archetypes
    /\ matcher' = S.matcher
    /\ ready' = S.ready
    /\ qaids' = S.qaids
    /\ qfilters' = S.qfilters
    /\ ecursor' = S.ecursor
    /\ alives' = S.alives
    /\ cemQ' = S.cemQ
    /\ cemBits' = S.cemBits
    /\ cemBlocks' = S.cemBlocks
    /\ blocks' = S.blocks
    /\ toBornA' = S.toBornA
    /\ toKillA' = S.toKillA
    /\ rows' = S.rows
    /\ orphans' = S.orphans
    /\ toBornW' = S.toBornW
    /\ toKillW' = S.toKillW
    /\ callbacks' = S.callbacks
    /\ nextCallbackId' = S.nextCallbackId
    /\ icallbacks' = S.icallbacks
    /\ inextCallbackId' = S.inextCallbackId
    /\ cachers' = S.cachers
    /\ events' = S.events
    /\ bornCalls' = hb
    /\ killCalls' = hk
    /\ pendingBorn' = MapEraseAll(pb, Range(KilledIn(S.events)))
    /\ pendingKill' = MapEraseAll(pk, Range(KilledIn(S.events)))
    /\ deadOrder' = DeadOrderAfter(allocated, KilledIn(S.events))

\* A call that leaves the history as it is.
Plain(S) == Commit(S, {}, bornCalls, killCalls, pendingBorn, pendingKill)

-----------------------------------------------------------------------------
(* The calls a client makes, outside callbacks, on a world whose two       *)
(* archetypes exist and whose queries are pre-matched.                     *)

\* No entity, no callback, no cacher yet.
InitWorld ==
    /\ ecursor = [a \in Aids |-> 0]
    /\ alives = [a \in Aids |-> {}]
    /\ cemQ = [a \in Aids |-> << >>]
    /\ cemBits = [a \in Aids |-> {}]
    /\ cemBlocks = [a \in Aids |-> 0]
    /\ blocks = [a \in Aids |-> 0]
    /\ toBornA = [a \in Aids |-> EmptyMap]
    /\ toKillA = [a \in Aids |-> EmptyMap]
    /\ rows = [a \in Aids |-> [e \in ShortIds |-> ZeroCell]]
    /\ orphans = {}
    /\ toBornW = << >>
    /\ toKillW = << >>
    /\ callbacks = << >>
    /\ nextCallbackId = 0
    /\ icallbacks = {}
    /\ inextCallbackId = 0
    /\ cachers = [c \in QueryIds |-> NoCacher]
    /\ lastOp = Op("Init", 0, 0)
    /\ events = << >>
    /\ bornCalls = << >>
    /\ killCalls = << >>
    /\ pendingBorn = EmptyMap
    /\ pendingKill = EmptyMap
    /\ deadOrder = [a \in Aids |-> << >>]

Init ==
    /\ archetypes = ArchSignatures
    /\ matcher = WorldMatcher
    /\ ready = [q \in QueryIds |-> TRUE]
    /\ qaids = [q \in QueryIds |-> QAids(q)]
    /\ qfilters = [q \in QueryIds |-> QFilters(q)]
    /\ InitWorld

\* A world just constructed: no archetype, and queries not pre-matched.
InitSetup ==
    /\ archetypes = << >>
    /\ matcher = EmptyMatcher
    /\ ready = [q \in QueryIds |-> FALSE]
    /\ qaids = [q \in QueryIds |-> {}]
    /\ qfilters = [q \in QueryIds |-> QFilters(q)]
    /\ InitWorld

\* Archetype a hands out no fresh short id at or above Capacity(a).
Capacity(a) == MaxCursor - a
CanAllocate(a) == Len(cemQ[a]) > 0 \/ ecursor[a] < Capacity(a)

\* a.NewEntity(initializer); a.NewEntity() is the call with v = 0.
NewEntity(a, v) ==
    /\ CanAllocate(a)
    /\ LET p == IArchetype_NewEntity(St, a, v)
       IN /\ lastOp' = Op("NewEntity", a, Pack(a, p.e))
          /\ Commit(p.S, {Pack(a, p.e)}, bornCalls, killCalls, pendingBorn, pendingKill)

\* a.DelayedNewEntity(initializer); a.DelayedNewEntity() is the call with v = 0.
DelayedNewEntity(a, v) ==
    /\ CanAllocate(a)
    /\ Len(toBornW) < MaxQueue
    /\ LET p == IArchetype_DelayedNewEntity(St, a, v)
           eid == Pack(a, p.e)
       IN /\ lastOp' = Op("DelayedNewEntity", a, eid)
          /\ Commit(p.S, {eid}, Append(bornCalls, [id |-> eid, val |-> v]), killCalls,
                    MapOverwrite(pendingBorn, eid, v), pendingKill)

\* w.Kill(eid)
Kill(eid) ==
    /\ lastOp' = Op("Kill", 0, 0)
    /\ Plain(World_Kill(St, eid))

\* w.DelayedKill(eid, beforeKilled)
DelayedKill(eid, cb) ==
    /\ Len(toKillW) < MaxQueue
    /\ lastOp' = Op("DelayedKill", 0, 0)
    /\ LET effective == World_IsAlive(St, eid)
       IN Commit(World_DelayedKill(St, eid, cb), {}, bornCalls,
                 IF effective THEN Append(killCalls, [id |-> eid, cb |-> cb])
                 ELSE killCalls,
                 pendingBorn,
                 IF effective THEN MapInsert(pendingKill, eid, cb) ELSE pendingKill)

\* w.DelayedKill(eid)
DelayedKillNoCallback(eid, outcome) ==
    /\ Len(toKillW) < MaxQueue
    /\ lastOp' = Op("DelayedKill()", 0, 0)
    /\ LET S1 == World_DelayedKillNull(St, eid, outcome)
           stored == S1.toKillW # toKillW
       IN Commit(S1, {}, bornCalls,
                 IF stored THEN Append(killCalls, [id |-> eid, cb |-> NoCb])
                 ELSE killCalls,
                 pendingBorn,
                 IF stored THEN MapInsert(pendingKill, eid, NoCb) ELSE pendingKill)

\* w.ApplyDelayedKills()
ApplyDelayedKills ==
    /\ lastOp' = Op("ApplyDelayedKills", 0, 0)
    /\ Commit(World_ApplyDelayedKills(St), {}, bornCalls, << >>, pendingBorn, EmptyMap)

\* w.ApplyDelayedNewEntities()
ApplyDelayedNewEntities ==
    /\ lastOp' = Op("ApplyDelayedNewEntities", 0, 0)
    /\ LET S1 == World_ApplyDelayedNewEntities(St)
       IN Commit(S1,
                 { S1.events[i].id :
                       i \in { j \in DOMAIN S1.events : S1.events[j].kind = "enqueued" } },
                 << >>, killCalls, EmptyMap, pendingKill)

\* w.Get(eid).Get<D>().x = v, on an entity Get does not answer null for.
SetField(eid, v) ==
    /\ ~World_Get(St, eid).null
    /\ rows[UnpackX(eid)][UnpackY(eid)].bound
    /\ lastOp' = Op("SetField", 0, 0)
    /\ Plain(FieldProxy_Set(St, UnpackX(eid), UnpackY(eid), v))

\* w.Get(eid).Get<D>().x = v, whatever the proxy's iterator is.
Assign(eid, v) ==
    /\ ~World_Get(St, eid).null
    /\ lastOp' = Op("Assign", 0, eid)
    /\ Plain(FieldProxy_Set(St, UnpackX(eid), UnpackY(eid), v))

\* w.Get(eid)
Get(eid) ==
    /\ lastOp' = Op("Get", 0, 0)
    /\ Plain(Log(St, Returned(World_Get(St, eid))))

\* auto c = q.Cache()
Cache(c) ==
    /\ ~cachers[c].exists
    /\ lastOp' = Op("Cache", c, 0)
    /\ Plain(ICacher_Setup(St, c))

\* The cacher c goes out of scope.
DestroyCacher(c) ==
    /\ cachers[c].exists
    /\ lastOp' = Op("~Cacher", c, 0)
    /\ Plain(ICacher_Destroy(St, c))

\* a.ForEachUntil(cb, reversed); ForEach is the call whose cb never returns true.
ArchetypeForEachUntil(a, stopIds, reversed) ==
    /\ lastOp' = [Op("IArchetype::ForEachUntil", a, 0) EXCEPT !.rev = reversed]
    /\ Plain(IArchetype_ForEachUntil(St, a, stopIds, reversed))

\* q.ForEachUntil(cb, reversed)
QueryForEachUntil(q, stopIds, reversed) ==
    /\ lastOp' = [Op("IQuery::ForEachUntil", q, 0) EXCEPT !.rev = reversed]
    /\ Plain(IQuery_ForEachUntil(St, q, stopIds, reversed))

\* c.ForEachUntil(cb, reversed)
CacherForEachUntil(c, stopIds, reversed) ==
    /\ cachers[c].exists
    /\ lastOp' = [Op("ICacher::ForEachUntil", c, 0) EXCEPT !.rev = reversed]
    /\ Plain(Cacher_ForEachUntil(St, c, stopIds, reversed))

\* q.ForEach(cb, reversed) on a query with filters, cb killing victim.
QueryForEachKilling(q, victim, reversed) ==
    /\ Len(QFilters(q)) > 0
    /\ lastOp' = [Op("IQuery::ForEach killing", q, 0) EXCEPT !.rev = reversed]
    /\ Plain(IQuery_ForEachKilling(St, q, victim, reversed))

\* q.CollectUntil(vec, tester, reversed): the events are the tester's calls,
\* and vec holds the references of those that did not stop.
QueryCollectUntil(q, testerIds, reversed) ==
    /\ lastOp' = [Op("IQuery::CollectUntil", q, 0) EXCEPT !.rev = reversed]
    /\ Plain(IQuery_ForEachUntil(St, q, testerIds, reversed))

\* c.CollectUntil(vec, tester, reversed)
CacherCollectUntil(c, testerIds, reversed) ==
    /\ cachers[c].exists
    /\ lastOp' = [Op("ICacher::CollectUntil", c, 0) EXCEPT !.rev = reversed]
    /\ Plain(Cacher_ForEachUntil(St, c, testerIds, reversed))

\* The callbacks of the model that stop: each on one entity id.
StopSets == { {eid} : eid \in Eids }

\* A client that creates and kills, at once and deferred.
Next ==
    \/ \E a \in Aids : NewEntity(a, 0)
    \/ \E a \in Aids : DelayedNewEntity(a, 0)
    \/ \E eid \in Eids \cup {BadEid} : Kill(eid)
    \/ \E eid \in Eids \cup {BadEid} : DelayedKill(eid, "cb1")
    \/ ApplyDelayedKills
    \/ ApplyDelayedNewEntities

Spec == Init /\ [][Next]_vars

\* A client that kills at once and deferred, with two before-kill callbacks.
NextKill ==
    \/ \E a \in Aids : NewEntity(a, 0)
    \/ \E eid \in Eids : Kill(eid)
    \/ \E eid \in Eids, cb \in BeforeKillCbs : DelayedKill(eid, cb)
    \/ ApplyDelayedKills
    \/ \E q \in QueryIds, r \in BOOLEAN : QueryForEachUntil(q, {}, r)

SpecKill == Init /\ [][NextKill]_vars

\* A client that creates, kills, assigns indexed fields and caches queries.
NextQuery ==
    \/ \E a \in Aids : NewEntity(a, 0)
    \/ \E a \in Aids : DelayedNewEntity(a, 0)
    \/ \E eid \in Eids : Kill(eid)
    \/ ApplyDelayedNewEntities
    \/ \E eid \in Eids, v \in Values : SetField(eid, v)
    \/ \E c \in CacherIds : Cache(c)

SpecQuery == Init /\ [][NextQuery]_vars

\* w.NewArchetype<...>(), the archetypes of the model in their order
NewArchetype ==
    /\ Len(archetypes) < NumArchetypes
    /\ lastOp' = Op("NewArchetype", 0, Len(archetypes))
    /\ Plain(World_NewArchetype(St, ArchSignatures[Len(archetypes) + 1]))

\* q.PreMatch(), called before any archetype exists or after all do
PreMatch(q) ==
    /\ Len(archetypes) \in {0, NumArchetypes}
    /\ lastOp' = Op("PreMatch", q, 0)
    /\ Plain(IQuery_PreMatch(St, q))

\* q.PreMatch(), called once an archetype exists
PreMatchEarly(q) ==
    /\ Len(archetypes) > 0
    /\ lastOp' = Op("PreMatch", q, 0)
    /\ Plain(IQuery_PreMatch(St, q))

\* The longest filter list a client of the model builds.
MaxFilters == 2

\* q.Where(f)
Where(q, f) ==
    /\ Len(qfilters[q]) < MaxFilters
    /\ lastOp' = Op("Where", q, 0)
    /\ Plain(Query_Where(St, q, f))

\* q.ClearFilters()
ClearFilters(q) ==
    /\ lastOp' = Op("ClearFilters", q, 0)
    /\ Plain(Query_ClearFilters(St, q))

\* auto c = q.Cache() on a query that is not ready
CacheUnready(c, outcome) ==
    /\ ~ready[c]
    /\ ~cachers[c].exists
    /\ lastOp' = Op("Cache", c, 0)
    /\ Plain(ICacher_SetupUnready(St, c, outcome))

\* w.AfterEntityCreated<Cs...>(f) (flag 0), w.BeforeEntityRemoved<Cs...>(f)
\* (flag 1)
RegisterCallback(flag, k) ==
    /\ Len(callbacks) < MaxUserCallbacks
    /\ lastOp' = Op("PushCallbackByComponents", flag, k)
    /\ Plain(PushCallbackByComponents(St, flag, k))

\* w.NewArchetype<Components...>() for any non-empty list of components
NewArchetypeOf(signature) ==
    /\ Len(archetypes) < MaxArchetypes
    /\ lastOp' = Op("NewArchetype", 0, Len(archetypes))
    /\ Plain(World_NewArchetype(St, signature))

\* w.NewArchetype<Components...>() for any list of components, on a world of
\* any number of archetypes up to one beyond the limit
NewArchetypeAny(cids, outcome) ==
    /\ Len(archetypes) <= MaxNumArchetypesPerWorld
    /\ lastOp' = Op("NewArchetype", Cardinality(cids), Len(archetypes))
    /\ Plain(World_NewArchetypeAny(St, cids, outcome))

\* matcher->Match(relation, signature); the answer is kept as its bitset
MatchCall(relation, signature) ==
    /\ lastOp' = Op("Match", Cardinality(signature),
                    AnsBits(Matcher_Match(matcher, relation, signature)))
    /\ Plain(St)

\* a.NewEntity(), by a client that fills blocks
NewEntityInBlocks(a) ==
    /\ Len(cemQ[a]) > 0 \/ ecursor[a] < MaxBlockCursor
    /\ LET p == IArchetype_NewEntity(St, a, 0)
       IN /\ lastOp' = Op("NewEntity", a, Pack(a, p.e))
          /\ Commit(p.S, {Pack(a, p.e)}, bornCalls, killCalls, pendingBorn, pendingKill)

\* a.Reserve(numEntities)
Reserve(a, numEntities) ==
    /\ lastOp' = Op("Reserve", a, numEntities)
    /\ Plain(IArchetype_Reserve(St, a, numEntities))

\* cemetery.Add(e), on the cemetery of archetype 0 taken on its own
CemeteryAddCall(e) ==
    /\ Len(cemQ[0]) < MaxCemetery
    /\ lastOp' = Op("Cemetery::Add", 0, e)
    /\ Plain(CemeteryAdd(St, 0, e))

\* cemetery.Pop(), which the caller makes on a cemetery that is not empty
CemeteryPopCall ==
    /\ CemeterySize(St, 0) > 0
    /\ LET p == CemeteryPop(St, 0)
       IN lastOp' = Op("Cemetery::Pop", 0, p.e) /\ Plain(p.S)

\* eid = Pack(x, y), then UnpackX(eid) and UnpackY(eid)
PackUnpack(x, y) ==
    /\ lastOp' = Op("Pack", x, y)
    /\ LET eid == PackWord(Bits(x), Bits(y))
       IN Plain(Log(St, Ev("unpacked", WordValue(UnpackXWord(eid)),
                           WordValue(UnpackYWord(eid)), NoCb)))

\* (index1 op rhs)->Execute(cb)
FilterCall(f, outcome) ==
    /\ lastOp' = Op("IFilter::Execute", 0, 0)
    /\ Plain(IFilter_Execute(St, f, outcome))

\* a.Kill(e, &beforeKill), and a.Kill(e) with cb = NoCb
ArchetypeKill(eid, cb) ==
    /\ lastOp' = Op("IArchetype::Kill", UnpackX(eid), eid)
    /\ Plain(IArchetype_Kill(St, UnpackX(eid), UnpackY(eid), cb))

\* a.NewEntity([&](EntityReference& ref) { ... a2.NewEntity() ... })
NewEntityNesting(a, v, a2, createsFirst) ==
    /\ CanAllocate(a)
    /\ CanAllocateIn(AllocateForNewEntity(St, a).S, a2)
    /\ LET p == IArchetype_NewEntityNesting(St, a, v, a2, createsFirst)
       IN /\ lastOp' = Op("NewEntity nesting", a, Pack(a, p.e))
          /\ Commit(p.S, {Pack(a, p.e), Pack(a2, p.e2)}, bornCalls, killCalls,
                    pendingBorn, pendingKill)

\* The process has not ended.
Running == \A i \in 1 .. Len(events) : events[i].kind # "crash"

\* A client that kills deferred without a before-kill callback.
NextNoCallback ==
    \/ \E a \in Aids : Running /\ NewEntity(a, 0)
    \/ \E eid \in Eids : Running /\ Kill(eid)
    \/ \E eid \in Eids, o \in NullDerefOutcomes :
          Running /\ DelayedKillNoCallback(eid, o)
    \/ Running /\ ApplyDelayedKills

SpecNoCallback == Init /\ [][NextNoCallback]_vars

\* A client that registers lifecycle callbacks, before, between and after
\* the creation of the archetypes, and creates and kills entities.
NextHooks ==
    \/ NewArchetype
    \/ \E flag \in {0, 1}, k \in DOMAIN UserSigs : RegisterCallback(flag, k)
    \/ \E a \in Aids : a < Len(archetypes) /\ NewEntity(a, 0)
    \/ \E eid \in Eids : Kill(eid)

SpecHooks == InitSetup /\ [][NextHooks]_vars

MatchRelations == {"ALL", "ANY", "NONE"}
Signatures == SUBSET ComponentIds

\* A world that gets archetypes of any signatures, and the matches on it.
NextMatcher ==
    \/ \E signature \in Signatures \ {{}} : NewArchetypeOf(signature)
    \/ \E relation \in MatchRelations, signature \in Signatures :
          MatchCall(relation, signature)

SpecMatcher == InitSetup /\ [][NextMatcher]_vars

\* The component lists of the archetypes a client asks for: within the
\* signature, empty, and with an id beyond the signature.
CapacityInputs ==
    { {}, {ID_A}, {ID_D}, {ID_A, ID_D}, {MaxNumComponents}, {ID_A, MaxNumComponents} }

\* A client that creates archetypes up to the limits and beyond.
NextCapacity ==
    \/ \E cids \in CapacityInputs, o \in BeyondBitsetOutcomes :
          Running /\ NewArchetypeAny(cids, o)
    \/ \E relation \in MatchRelations, signature \in {{ID_A}, {ID_D}} :
          Running /\ MatchCall(relation, signature)

SpecCapacity == InitSetup /\ [][NextCapacity]_vars

\* The right-hand sides of the filters: the values, and one below and above.
RhsValues == (0 - 1) .. (MaxVal + 1)
FilterInputs ==
    { [op |-> o, rhs |-> r] :
        o \in {"EQ", "NE", "LT", "LE", "GT", "GE"}, r \in RhsValues }
    \cup { [op |-> "IN", rhs |-> r] : r \in SUBSET RhsValues }
    \cup { [op |-> "BT", rhs |-> r] : r \in RhsValues \X RhsValues }

\* A client that fills index1 through entities of any values, and executes
\* filters on it.
NextIndex ==
    \/ \E a \in Aids, v \in Values : Running /\ NewEntity(a, v)
    \/ \E eid \in Eids, v \in Values : Running /\ SetField(eid, v)
    \/ \E eid \in Eids : Running /\ Kill(eid)
    \/ \E f \in FilterInputs, o \in IncrementEndOutcomes :
          Running /\ FilterCall(f, o)

SpecIndex == Init /\ [][NextIndex]_vars

\* A client that kills at once, with and without a before-kill callback, on
\* a world with lifecycle callbacks and a cacher.
NextKillOrder ==
    \/ \E a \in Aids, v \in Values : NewEntity(a, v)
    \/ \E flag \in {0, 1}, k \in DOMAIN UserSigs : RegisterCallback(flag, k)
    \/ Cache(3)
    \/ \E eid \in Eids, cb \in BeforeKillCbs \cup {NoCb} : ArchetypeKill(eid, cb)

SpecKillOrder == Init /\ [][NextKillOrder]_vars

\* A client that creates at once and deferred on a world with creation
\* callbacks.
NextCreated ==
    \/ \E k \in DOMAIN UserSigs : RegisterCallback(0, k)
    \/ \E a \in Aids, v \in Values : NewEntity(a, v)
    \/ \E a \in Aids : DelayedNewEntity(a, MaxVal)
    \/ ApplyDelayedNewEntities
    \/ \E eid \in Eids : World_IsAlive(St, eid) /\ Kill(eid)

SpecCreated == Init /\ [][NextCreated]_vars

\* A client whose callbacks enqueue deferred kills and creations while the
\* deferred ones are applied.
NextDeferred ==
    \/ \E a \in Aids : NewEntity(a, 0)
    \/ DelayedNewEntity(0, ChainInit)
    \/ \E eid \in Eids : DelayedKill(eid, ChainCb)
    \/ \E eid \in Eids : Kill(eid)
    \/ ApplyDelayedKills
    \/ ApplyDelayedNewEntities

SpecDeferred == Init /\ [][NextDeferred]_vars

\* The queries a client sets up between the creations of the archetypes, and
\* the filters it appends.
SnapshotQueries == {1, 3}
WhereInputs == { [op |-> "GE", rhs |-> 1] }

\* A client that pre-matches, caches and registers callbacks before all
\* archetypes are created, and changes the filters of its queries.
NextSnapshot ==
    \/ NewArchetype
    \/ \E q \in SnapshotQueries : PreMatchEarly(q)
    \/ \E a \in Aids : a < Len(archetypes) /\ NewEntity(a, 0)
    \/ RegisterCallback(0, 1)
    \/ \E c \in SnapshotQueries : ready[c] /\ Cache(c)
    \/ \E f \in WhereInputs : Where(3, f)
    \/ ClearFilters(3)
    \/ \E eid \in Eids, v \in Values : SetField(eid, v)

SpecSnapshot == InitSetup /\ [][NextSnapshot]_vars

\* A client whose initializers create entities too.
NextNesting ==
    \/ \E a \in Aids, v \in Values : NewEntity(a, v)
    \/ \E a \in Aids, v \in Values, a2 \in Aids, first \in BOOLEAN :
          NewEntityNesting(a, v, a2, first)
    \/ \E a \in Aids : DelayedNewEntity(a, MaxVal)
    \/ ApplyDelayedNewEntities
    \/ \E eid \in Eids : World_IsAlive(St, eid) /\ Kill(eid)
    \/ \E eid \in Eids, v \in Values : Assign(eid, v)

SpecNesting == Init /\ [][NextNesting]_vars

\* The archetype ids and short ids that are packed: the ends of the ranges
\* of 13 and 19 bits, the ids around them and around the half ranges, and the
\* largest values of the arguments' types that 31 bits hold.
PackXInputs == {0, 1, 2, 123, 4095, 4096, 8190, 8191, 8192, 8193, 65535}
PackYInputs ==
    {0, 1, 2, 34567, 262143, 262144, 524286, 524287, 524288, 524289, 2147483647}

\* A client that fills the first block of an archetype and starts the
\* second, kills and recycles.
NextBlocks ==
    \/ \E a \in Aids : NewEntityInBlocks(a)
    \/ \E eid \in Eids : World_IsAlive(St, eid) /\ Kill(eid)

SpecBlocks == Init /\ [][NextBlocks]_vars

\* The numbers of entities a client reserves for: up to one row beyond two
\* blocks.
ReserveInputs == 0 .. (2 * MaxNumEntitiesPerBlock + 1)

\* The same client, reserving too.
NextReserve ==
    \/ \E a \in Aids : NewEntityInBlocks(a)
    \/ \E eid \in Eids : World_IsAlive(St, eid) /\ Kill(eid)
    \/ \E a \in Aids, n \in ReserveInputs : Reserve(a, n)

SpecReserve == Init /\ [][NextReserve]_vars

\* The short ids a cemetery on its own is given: those of two blocks, and the
\* first of a third.
CemeteryIds == 0 .. (2 * NumRowsPerBlock)

\* A client of a cemetery on its own, as Cemetery is used without an
\* archetype.
NextCemetery ==
    \/ \E e \in CemeteryIds : CemeteryAddCall(e)
    \/ CemeteryPopCall

SpecCemetery == Init /\ [][NextCemetery]_vars

\* A client that packs and unpacks ids.
NextPack == \E x \in PackXInputs, y \in PackYInputs : PackUnpack(x, y)

SpecPack == Init /\ [][NextPack]_vars

\* The callback ids a client of the model uses up.
MaxCallbackId == 6

\* A client that builds cachers of filtered queries and drops them.
NextCacher ==
    \/ \E a \in Aids : NewEntity(a, 0)
    \/ \E eid \in Eids : Kill(eid)
    \/ \E eid \in Eids, v \in Values : SetField(eid, v)
    \/ \E c \in QueryIds : nextCallbackId < MaxCallbackId /\ Cache(c)
    \/ \E c \in QueryIds : DestroyCacher(c)

SpecCacher == Init /\ [][NextCacher]_vars

\* A client that sets the world up and executes queries too early.
NextSetup ==
    \/ Running /\ NewArchetype
    \/ \E q \in QueryIds : Running /\ PreMatch(q)
    \/ \E a \in Aids : Running /\ a < Len(archetypes) /\ NewEntity(a, 0)
    \/ \E q \in QueryIds, st \in StopSets \cup {{}}, r \in BOOLEAN :
          Running /\ QueryForEachUntil(q, st, r)
    \/ \E q \in QueryIds, st \in StopSets \cup {{}}, r \in BOOLEAN :
          Running /\ QueryCollectUntil(q, st, r)
    \/ \E c \in QueryIds, o \in NullAidsOutcomes : Running /\ CacheUnready(c, o)

SpecSetup == InitSetup /\ [][NextSetup]_vars

\* The ids a client looks up: the ids of the model, an id of an archetype
\* outside the table, a short id never allocated, and the largest id.
LookupIds == Eids \cup {BadEid, Pack(0, MaxCursor), Pack(Pow2(12) - 1, Pow2(19) - 1)}

\* A client that creates, kills and looks entities up.
NextLookup ==
    \/ \E a \in Aids : NewEntity(a, 0)
    \/ \E a \in Aids : DelayedNewEntity(a, 0)
    \/ \E eid \in Eids : Kill(eid)
    \/ ApplyDelayedNewEntities
    \/ \E eid \in LookupIds : Get(eid)

SpecLookup == Init /\ [][NextLookup]_vars

\* A client that iterates with callbacks that stop.
NextUntil ==
    \/ \E a \in Aids, v \in Values : NewEntity(a, v)
    \/ \E eid \in Eids : Kill(eid)
    \/ \E c \in CacherIds : Cache(c)
    \/ \E a \in Aids, st \in StopSets, r \in BOOLEAN : ArchetypeForEachUntil(a, st, r)
    \/ \E q \in QueryIds, st \in StopSets, r \in BOOLEAN : QueryForEachUntil(q, st, r)
    \/ \E c \in CacherIds, st \in StopSets, r \in BOOLEAN : CacherForEachUntil(c, st, r)
    \/ \E q \in QueryIds, st \in StopSets, r \in BOOLEAN : QueryCollectUntil(q, st, r)
    \/ \E q \in QueryIds, eid \in Eids, r \in BOOLEAN : QueryForEachKilling(q, eid, r)
    \/ \E c \in CacherIds, st \in StopSets, r \in BOOLEAN : CacherCollectUntil(c, st, r)

SpecUntil == Init /\ [][NextUntil]_vars

-----------------------------------------------------------------------------
(* The claims. *)

\* The ids of the entities among references (a null handle is no entity).
IdsOf(refs) == { refs[i].id : i \in { j \in 1 .. Len(refs) : ~refs[j].null } }

\* The ids of the events of one kind, in order.
EventIds(evs, kind) ==
    LET ks == SelectSeq(evs, LAMBDA ev : ev.kind = kind)
    IN [ i \in 1 .. Len(ks) |-> ks[i].id ]

\* The entity ids of archetype a among ids.
Of(a, ids) == { eid \in ids : UnpackX(eid) = a }

\* C1: the entity ids a cacher holds are the entity ids its query returns
\* when it is executed again on the current world.
C1_CacherEqualsQuery ==
    \A c \in CacherIds :
        cachers[c].exists =>
            DOMAIN cachers[c].cache = IdsOf(QueryVisits(St, c, FALSE))

\* C2: a short id below the cursor is in exactly one of the alive set, the
\* to-born map and the cemetery; one at or above the cursor is in none.
C2_OneLifecycleState ==
    \A a \in Aids, e \in ShortIds :
        LET n == (IF e \in alives[a] THEN 1 ELSE 0)
                 + (IF e \in DOMAIN toBornA[a] THEN 1 ELSE 0)
                 + (IF CemeteryContains(St, a, e) THEN 1 ELSE 0)
        IN IF e < ecursor[a] THEN n = 1 ELSE n = 0

\* C3: NumEntities is the number of short ids IsAlive holds for, and the
\* cemetery and the to-born map together never exceed the cursor.
C3_NumEntitiesCountsAlive ==
    \A a \in Aids :
        /\ IArchetype_NumEntities(St, a)
             = Cardinality({ e \in ShortIds : IArchetype_IsAlive(St, a, e) })
        /\ CemeterySize(St, a) + Cardinality(DOMAIN toBornA[a]) <= ecursor[a]

\* A field value satisfies a filter.
Satisfies(x, f) ==
    CASE f.op = "EQ" -> x = f.rhs
      [] f.op = "NE" -> x # f.rhs
      [] f.op = "IN" -> x \in f.rhs
      [] f.op = "LT" -> x < f.rhs
      [] f.op = "LE" -> x <= f.rhs
      [] f.op = "GT" -> x > f.rhs
      [] f.op = "GE" -> x >= f.rhs
      [] f.op = "BT" -> x >= f.rhs[1] /\ x <= f.rhs[2]

\* The alive entities of the matched archetypes whose D.x satisfies every filter.
Selected(q) ==
    { eid \in Eids :
        /\ World_IsAlive(St, eid)
        /\ UnpackX(eid) \in QAids(q)
        /\ \A i \in 1 .. Len(QFilters(q)) :
              Satisfies(rows[UnpackX(eid)][UnpackY(eid)].x, QFilters(q)[i]) }

\* C4: a query with filters visits exactly the alive entities of its matched
\* archetypes whose indexed field value satisfies every filter.
C4_FilteredQueryVisitsSelected ==
    \A q \in { x \in QueryIds : Len(QFilters(x)) > 0 }, r \in BOOLEAN :
        Range(QueryVisits(St, q, r)) = { Ref(eid) : eid \in Selected(q) }

\* C5: an id DelayedNewEntity returned is, until the next
\* ApplyDelayedNewEntities, not alive, null under Get, not counted by
\* NumEntities and visited by no archetype, query or cacher.
C5_ToBornNotVisible ==
    \A eid \in DOMAIN pendingBorn :
        /\ ~World_IsAlive(St, eid)
        /\ World_Get(St, eid).null
        /\ \A a \in Aids :
              IArchetype_NumEntities(St, a)
                <= ecursor[a] - Cardinality(Of(a, DOMAIN pendingBorn))
        /\ \A r \in BOOLEAN :
              /\ eid \notin IdsOf(ArchetypeVisits(St, UnpackX(eid), r))
              /\ \A q \in QueryIds : eid \notin IdsOf(QueryVisits(St, q, r))
              /\ \A c \in CacherIds :
                    cachers[c].exists => eid \notin IdsOf(CacherVisits(St, c, r))

\* The number of times the initializer v ran on id eid in a call.
InitCount(evs, eid, v) ==
    Len(SelectSeq(evs, LAMBDA ev : ev.kind = "init" /\ ev.id = eid /\ ev.val = v))

\* C6: when ApplyDelayedNewEntities returns, every id DelayedNewEntity
\* returned and nobody killed since is alive, its initializer has run exactly
\* once, its archetype counts one entity more for it, and the queries that
\* match its archetype visit it.
C6_AppliedBirths ==
    LET S1 == World_ApplyDelayedNewEntities(St)
    IN /\ \A eid \in DOMAIN pendingBorn :
             /\ World_IsAlive(S1, eid)
             /\ ~World_Get(S1, eid).null
             /\ InitCount(S1.events, eid, pendingBorn[eid]) = 1
             /\ Len(SelectSeq(S1.events,
                              LAMBDA ev : ev.kind = "init" /\ ev.id = eid)) = 1
             /\ eid \in IdsOf(QueryVisits(S1, 1, FALSE))
       /\ \A a \in { UnpackX(eid) : eid \in DOMAIN pendingBorn } :
             IArchetype_NumEntities(S1, a)
               = IArchetype_NumEntities(St, a) + Cardinality(Of(a, DOMAIN pendingBorn))

\* The number of times the before-kill callback cb ran on id eid in a call.
BeforeKillCount(evs, eid, cb) ==
    Len(SelectSeq(evs, LAMBDA ev : ev.kind = "beforeKill" /\ ev.id = eid /\ ev.cb = cb))

\* C7: an alive entity DelayedKill was called on stays alive, counted and
\* visited until ApplyDelayedKills; when ApplyDelayedKills returns it is dead
\* and its before-kill callback has run exactly once.
C7_DelayedKill ==
    LET S1 == World_ApplyDelayedKills(St)
    IN /\ \A eid \in DOMAIN pendingKill :
             /\ World_IsAlive(St, eid)
             /\ eid \in IdsOf(QueryVisits(St, 1, FALSE))
             /\ ~World_IsAlive(S1, eid)
             /\ BeforeKillCount(S1.events, eid, pendingKill[eid]) = 1
             /\ Len(SelectSeq(S1.events,
                              LAMBDA ev : ev.kind = "beforeKill" /\ ev.id = eid)) = 1
       /\ \A a \in Aids :
             IArchetype_NumEntities(St, a) >= Cardinality(Of(a, DOMAIN pendingKill))

\* The ids of a sequence of calls, each id's first call only.
FirstIds(calls) ==
    LET f == SelectFirsts(calls, {})
    IN [ i \in 1 .. Len(f) |-> f[i].id ]

\* C8: ApplyDelayedNewEntities runs the initializers in the order of the
\* DelayedNewEntity calls, and ApplyDelayedKills runs the before-kill
\* callbacks and the kills in the order of the DelayedKill calls (on the
\* entities nobody killed since), whatever the archetypes.
C8_RegistrationOrder ==
    [][ /\ lastOp'.name = "ApplyDelayedNewEntities" =>
              EventIds(events', "init") = FirstIds(bornCalls)
        /\ lastOp'.name = "ApplyDelayedKills" =>
              LET due == SelectSeq(FirstIds(killCalls),
                                   LAMBDA eid : ~CemeteryContains(St, UnpackX(eid),
                                                                  UnpackY(eid)))
              IN /\ EventIds(events', "beforeKill") = due
                 /\ EventIds(events', "removed") = due
      ]_vars

\* Two initializers ran in the order of their calls, the entity of the
\* second archetype first.
C8_Witness ==
    /\ lastOp.name = "ApplyDelayedNewEntities"
    /\ EventIds(events, "init") = << Pack(1, 0), Pack(0, 0) >>

\* Every short id the archetype handed out is dead.
AllKilled(a) ==
    /\ ecursor[a] > 0
    /\ \A e \in ShortIds : e < ecursor[a] => CemeteryContains(St, a, e)

\* C9: the next NewEntity or DelayedNewEntity returns the earliest killed of
\* the dead short ids, and the cursor only when the cemetery is empty; once
\* every entity is killed NumEntities is 0.
C9_FifoRecycling ==
    \A a \in Aids :
        /\ AllKilled(a) => IArchetype_NumEntities(St, a) = 0
        /\ CanAllocate(a) =>
              LET e == IArchetype_NewEntity(St, a, 0).e
              IN /\ IArchetype_DelayedNewEntity(St, a, 0).e = e
                 /\ IF CemeterySize(St, a) > 0
                    THEN deadOrder[a] # << >> /\ e = Head(deadOrder[a])
                    ELSE deadOrder[a] = << >> /\ e = ecursor[a]

IterationCalls ==
    {"IArchetype::ForEachUntil", "IQuery::ForEachUntil", "ICacher::ForEachUntil"}

\* C10: in a ForEachUntil call the callback is not invoked again once it has
\* returned true.
C10_Cancellation ==
    lastOp.name \in IterationCalls =>
        \A i \in 1 .. Len(events) : events[i].stop => i = Len(events)

RECURSIVE LongestPrefix(_, _)
\* The longest prefix of refs on which the tester returns false.
LongestPrefix(refs, testerIds) ==
    IF refs = << >> \/ Head(refs).id \in testerIds THEN << >>
    ELSE << Head(refs) >> \o LongestPrefix(Tail(refs), testerIds)

\* C11: CollectUntil appends exactly the longest prefix of what Collect
\* produces on which the tester returns false, for queries and for cachers.
C11_CollectUntilPrefix ==
    \A st \in StopSets, r \in BOOLEAN :
        /\ \A q \in QueryIds :
              IQuery_CollectUntil(St, q, st, r)
                = LongestPrefix(IQuery_Collect(St, q, r), st)
        /\ \A c \in CacherIds :
              cachers[c].exists =>
                  ICacher_CollectUntil(St, c, st, r)
                    = LongestPrefix(ICacher_Collect(St, c, r), st)

\* The entities among the references are in strictly ascending packed id.
Ascending(refs) ==
    \A i, j \in 1 .. Len(refs) :
        (i < j /\ ~refs[i].null /\ ~refs[j].null) => refs[i].id < refs[j].id

\* C12: an archetype, a query without filters, a query with filters and a
\* cacher visit in ascending packed entity id (short ids ascending within an
\* archetype, archetypes in ascending id); reversed, each visits the exact
\* reverse; a cacher visits the same sequence as its query.
C12_IterationOrder ==
    /\ \A a \in Aids :
          /\ Ascending(ArchetypeVisits(St, a, FALSE))
          /\ ArchetypeVisits(St, a, TRUE) = Reverse(ArchetypeVisits(St, a, FALSE))
    /\ \A q \in QueryIds :
          /\ Ascending(QueryVisits(St, q, FALSE))
          /\ QueryVisits(St, q, TRUE) = Reverse(QueryVisits(St, q, FALSE))
    /\ \A c \in CacherIds :
          cachers[c].exists =>
              /\ Ascending(CacherVisits(St, c, FALSE))
              /\ CacherVisits(St, c, TRUE) = Reverse(CacherVisits(St, c, FALSE))
              /\ \A r \in BOOLEAN : CacherVisits(St, c, r) = QueryVisits(St, c, r)

\* C13: in the iteration of a query with filters whose callback kills, the
\* callback receives only handles of entities alive at that moment: never
\* the null handle, never an entity killed earlier in the iteration.
C13_KillingCallbackSeesAlive ==
    lastOp.name = "IQuery::ForEach killing" =>
        \A j \in 1 .. Len(events) :
            events[j].kind = "visit" =>
                /\ ~events[j].null
                /\ \A i \in 1 .. (j - 1) :
                      events[i].kind = "removed" => events[i].id # events[j].id

\* An id Kill has nothing to kill under: its archetype id is outside the
\* table, its short id is at or above the cursor, or it is dead already.
InvalidForKill(eid) ==
    \/ UnpackX(eid) >= Len(archetypes)
    \/ UnpackY(eid) >= ecursor[UnpackX(eid)]
    \/ CemeteryContains(St, UnpackX(eid), UnpackY(eid))

\* An id DelayedKill has nothing to mark under: out of range, dead or to-born.
InvalidForDelayedKill(eid) ==
    \/ InvalidForKill(eid)
    \/ UnpackY(eid) \in DOMAIN toBornA[UnpackX(eid)]

\* C14: World::Kill on an invalid target runs no callback and changes
\* nothing; DelayedKill on a dead, to-born or out-of-range id enqueues nothing
\* (and changes nothing else).
C14_NoOpOnInvalidTarget ==
    \A eid \in Eids \cup {BadEid} :
        /\ InvalidForKill(eid) => World_Kill(St, eid) = St
        /\ InvalidForDelayedKill(eid) =>
              \A cb \in BeforeKillCbs : World_DelayedKill(St, eid, cb) = St

\* Kill has returned without a callback while entities live and lie dead.
C14_Witness ==
    /\ lastOp.name = "Kill"
    /\ events = << >>
    /\ \E a \in Aids : alives[a] # {} /\ cemQ[a] # << >>

\* C15: World::Get answers every id; it answers the null handle for an id
\* that is not alive, and a handle carrying the id for one that is; the
\* handle's IsAlive is World::IsAlive of the id.
C15_CheckedLookup ==
    \A eid \in LookupIds :
        LET ref == World_Get(St, eid)
        IN /\ EntityReference_IsAlive(St, ref) = World_IsAlive(St, eid)
           /\ IF World_IsAlive(St, eid) THEN ref = Ref(eid)
              ELSE ref = NullEntityReference

\* Get has answered the null handle while an entity lives, one lies dead and
\* one is to be born.
C15_Witness ==
    /\ lastOp.name = "Get"
    /\ events = << Returned(NullEntityReference) >>
    /\ \E a \in Aids : alives[a] # {}
    /\ \E a \in Aids : cemQ[a] # << >>
    /\ \E a \in Aids : DOMAIN toBornA[a] # {}

\* No exception left the call and the process has not ended in it.
NoError(evs) == \A i \in 1 .. Len(evs) : evs[i].kind \notin {"throw", "crash"}

\* C16: DelayedKill without a before-kill callback on an alive entity
\* enqueues the kill and raises no error; the following ApplyDelayedKills
\* kills the entity, invokes no before-kill callback and raises no error.
C16_DelayedKillWithoutCallback ==
    /\ lastOp.name = "DelayedKill()" => NoError(events)
    /\ LET S1 == World_ApplyDelayedKills(St)
       IN \A eid \in DOMAIN pendingKill :
              /\ eid \in Range(toKillW)
              /\ ~World_IsAlive(S1, eid)
              /\ NoError(S1.events)
              /\ \A i \in 1 .. Len(S1.events) :
                    S1.events[i].id = eid => S1.events[i].kind # "beforeKill"

\* C17: ForEach, ForEachUntil, Collect, CollectUntil and Cache of a query that
\* is not pre-matched fail with the QueryNotReady error and change nothing;
\* PreMatch on a world without archetypes fails and leaves the query not ready.
C17_QueryNotReady ==
    \A q \in QueryIds :
        /\ ~ready[q] =>
              /\ \A st \in StopSets \cup {{}}, r \in BOOLEAN :
                    IQuery_ForEachUntil(St, q, st, r)
                      = Log(St, Throw("QueryNotReady"))
              /\ ~cachers[q].exists =>
                    \A o \in NullAidsOutcomes :
                        ICacher_SetupUnready(St, q, o)
                          = Log(St, Throw("QueryNotReady"))
        /\ archetypes = << >> =>
              LET S1 == IQuery_PreMatch(St, q)
              IN Threw(S1) /\ ~S1.ready[q] /\ S1 = Log(St, S1.events[1])

\* The callbacks cacher c holds in the world's table, by flag.
OwnCallbacks(S, c, flag) ==
    SelectSeq(S.callbacks, LAMBDA cb : cb.owner = c /\ cb.flag = flag)

\* Cacher c holds two lifecycle callbacks, one per flag and on the archetypes
\* of its query, and one listener on each distinct index of its filters.
HoldsItsCallbacks(S, c) ==
    /\ Cardinality(Ecbs(S, c)) = 2
    /\ Len(OwnCallbacks(S, c, 0)) = 1 /\ OwnCallbacks(S, c, 0)[1].aids = QAids(c)
    /\ Len(OwnCallbacks(S, c, 1)) = 1 /\ OwnCallbacks(S, c, 1)[1].aids = QAids(c)
    /\ Cardinality(Icbs(S, c)) = Cardinality(IndexPtrs(QFilters(c)))

HoldsNoCallback(S, c) == Ecbs(S, c) = {} /\ Icbs(S, c) = {}

\* Destroying the existing cacher c removes its callbacks and no other, and
\* building and destroying the absent cacher c restores both counts; of a
\* cacher that does not exist nothing is registered and nothing is cached.
DestroyRestores(c) ==
    /\ cachers[c].exists =>
          LET S2 == ICacher_Destroy(St, c)
          IN /\ HoldsNoCallback(S2, c)
             /\ World_NumCallbacks(S2)
                  = World_NumCallbacks(St) - Cardinality(Ecbs(St, c))
             /\ IFieldIndexRoot_NumCallbacks(S2)
                  = IFieldIndexRoot_NumCallbacks(St) - Cardinality(Icbs(St, c))
             /\ \A d \in QueryIds \ {c} :
                    Ecbs(S2, d) = Ecbs(St, d) /\ Icbs(S2, d) = Icbs(St, d)
    /\ ~cachers[c].exists =>
          LET S2 == ICacher_Destroy(ICacher_Setup(St, c), c)
          IN /\ World_NumCallbacks(S2) = World_NumCallbacks(St)
             /\ IFieldIndexRoot_NumCallbacks(S2) = IFieldIndexRoot_NumCallbacks(St)
             /\ S2.callbacks = callbacks /\ S2.icallbacks = icallbacks
             /\ HoldsNoCallback(St, c)
             /\ cachers[c].cache = EmptyMap

\* C18: while a cacher with filters exists it holds exactly two world
\* lifecycle callbacks and one update listener on each distinct index of its
\* filters; destroying it removes them all, restores World::NumCallbacks and
\* the index's NumCallbacks, and none of its callbacks is invoked afterwards.
C18_CacherCallbacks ==
    \A c \in QueryIds :
        Len(QFilters(c)) > 0 =>
            /\ cachers[c].exists => HoldsItsCallbacks(St, c)
            /\ DestroyRestores(c)

\* C18, amended: the cacher holds them when its query matches at least one
\* archetype, and holds no callback at all when its query matches none.
C18_CacherCallbacksWhenMatched ==
    \A c \in QueryIds :
        Len(QFilters(c)) > 0 =>
            /\ cachers[c].exists /\ QAids(c) # {} => HoldsItsCallbacks(St, c)
            /\ cachers[c].exists /\ QAids(c) = {} => HoldsNoCallback(St, c)
            /\ DestroyRestores(c)

\* A filtered cacher was built and destroyed, another one exists, and an
\* indexed field has just been assigned.
C18_Witness ==
    /\ lastOp.name = "SetField"
    /\ inextCallbackId >= 2
    /\ cachers[2].exists /\ ~cachers[3].exists
    /\ Len(QFilters(3)) > 0 /\ QAids(3) # {}
    /\ IFieldIndexRoot_NumCallbacks(St) = 1

\* The archetypes created so far whose signature contains all of sig.
ArchetypesContaining(S, sig) ==
    { a \in 0 .. (Len(S.archetypes) - 1) : sig \subseteq S.archetypes[a + 1] }

\* The calls of the world's hook of flag (0 after creation, 1 before removal)
\* on entity eid during the last operation, and the calls of callback cb.
HookCount(flag, eid) ==
    Len(SelectSeq(events, LAMBDA ev :
            ev.kind = (IF flag = 0 THEN "created" ELSE "removed") /\ ev.id = eid))
CalledCount(cb, eid) ==
    Len(SelectSeq(events, LAMBDA ev :
            ev.kind = "called" /\ ev.id = eid /\ ev.val = cb.id))

UserCallbacks == { callbacks[i] : i \in { j \in DOMAIN callbacks : IsUserCallback(callbacks[j]) } }

\* C19: a lifecycle callback registered for Cs is invoked exactly once for
\* each creation (flag 0) or removal (flag 1) of an entity in an archetype
\* whose signature contains all of Cs, and never for other archetypes.
C19_LifecycleCallbackDispatch ==
    \A cb \in UserCallbacks, eid \in Eids :
        CalledCount(cb, eid) =
            IF UnpackX(eid) \in ArchetypesContaining(St, UserSig(cb))
            THEN HookCount(cb.flag, eid) ELSE 0

\* C19, amended: the archetypes a callback is keyed by are those that
\* contain all of Cs among the archetypes created before the registration;
\* the creation of an archetype changes no callback; the callback is invoked
\* exactly once per creation or removal in the archetypes it is keyed by and
\* never in another one, and it is never keyed by an archetype whose signature
\* lacks one of Cs.
C19_LifecycleCallbackDispatchAtRegistration ==
    /\ \A cb \in UserCallbacks, eid \in Eids :
            /\ CalledCount(cb, eid) =
                   IF UnpackX(eid) \in cb.aids THEN HookCount(cb.flag, eid) ELSE 0
            /\ cb.aids \subseteq ArchetypesContaining(St, UserSig(cb))
    /\ \A flag \in {0, 1}, k \in DOMAIN UserSigs :
            LET S1 == PushCallbackByComponents(St, flag, k)
            IN IF archetypes = << >>
               THEN Threw(S1) /\ S1.callbacks = callbacks
               ELSE /\ S1.callbacks = Append(callbacks, S1.callbacks[Len(S1.callbacks)])
                    /\ S1.callbacks[Len(S1.callbacks)].aids
                         = ArchetypesContaining(St, UserSigs[k])
                    /\ S1.callbacks[Len(S1.callbacks)].flag = flag
    /\ Len(archetypes) < NumArchetypes =>
            World_NewArchetype(St, ArchSignatures[Len(archetypes) + 1]).callbacks
              = callbacks

\* Two callbacks on <D>, one per flag, registered after both archetypes; an
\* entity of <A, D> has just been killed and the removal callback called.
C19_Witness ==
    /\ lastOp.name = "Kill"
    /\ Len(archetypes) = NumArchetypes
    /\ \E cb \in UserCallbacks :
          /\ cb.flag = 1 /\ UserSig(cb) = {ID_D} /\ cb.aids = {0, 1}
          /\ \E eid \in Eids : UnpackX(eid) = 1 /\ CalledCount(cb, eid) = 1

\* The ids of the archetypes registered so far.
Registered == 0 .. (Len(archetypes) - 1)
SignatureOf(aid) == archetypes[aid + 1]

\* C20: Matcher::Match agrees with the set definition: ALL gives the
\* registered archetypes whose signature is a superset of sig, ANY those that
\* share a component with sig, or all of them when sig is empty, NONE those
\* that share no component with sig; no answer holds an unregistered id, and
\* for a non-empty sig NONE(sig) is the complement of ANY(sig) among the
\* registered archetypes.
C20_MatchAgreesWithSets ==
    \A sig \in Signatures :
        LET all == Matcher_Match(matcher, "ALL", sig)
            any == Matcher_Match(matcher, "ANY", sig)
            none == Matcher_Match(matcher, "NONE", sig)
        IN /\ all = { a \in Registered : sig \subseteq SignatureOf(a) }
           /\ any = IF sig = {} THEN Registered
                    ELSE { a \in Registered : SignatureOf(a) \cap sig # {} }
           /\ none = { a \in Registered : SignatureOf(a) \cap sig = {} }
           /\ (all \cup any \cup none) \subseteq Registered
           /\ sig # {} => none = Registered \ any

\* Three archetypes are registered and a match has just been asked whose
\* three relations answer differently on some signature of two components.
C20_Witness ==
    /\ lastOp.name = "Match"
    /\ Len(archetypes) = MaxArchetypes
    /\ \E sig \in Signatures :
          /\ Cardinality(sig) = 2
          /\ Matcher_Match(matcher, "ALL", sig) # {}
          /\ Matcher_Match(matcher, "ALL", sig) # Matcher_Match(matcher, "ANY", sig)
          /\ Matcher_Match(matcher, "NONE", sig) # {}

\* C21: each filter operator hands to its callback exactly the entity ids of
\* the index entries whose value satisfies the predicate, for every content of
\* the index and every right-hand side; Between(a, b) with a > b enumerates
\* nothing.
C21_FilterOperators ==
    \A f \in FilterInputs :
        /\ FilterExecute(St, f)
             = { en.eid : en \in { x \in IndexEntries(St) : Satisfies(x.val, f) } }
        /\ \A o \in IncrementEndOutcomes :
              NoError(IFilter_Execute(St, f, o).events)

\* The cachers subscribed to index1.
Subscribed == { l.owner : l \in icallbacks }
PassesAll(v, filters) == \A i \in 1 .. Len(filters) : Satisfies(v, filters[i])

KindsOf(evs) ==
    LET es == SelectSeq(evs, LAMBDA ev : ev.kind # "sees")
    IN [ i \in 1 .. Len(es) |-> es[i].kind ]
SeenIn(evs) ==
    LET es == SelectSeq(evs, LAMBDA ev : ev.kind = "sees")
    IN { [id |-> es[i].id, val |-> es[i].val] : i \in 1 .. Len(es) }
\* The before_entity_removed callbacks of users on archetype a.
UserRemovalCallbacks(a) ==
    SelectSeq(callbacks, LAMBDA cb : IsUserCallback(cb) /\ cb.flag = 1 /\ a \in cb.aids)

\* C23: an immediate kill of an alive entity runs the before-kill callback if
\* there is one, then the world's before_entity_removed callbacks, then
\* destructs the components, which takes the entity's entries out of the
\* index, then adds the id to the cemetery and takes it out of the alive set;
\* every callback sees the entity alive and its index entry present.
C23_KillOrder ==
    \A eid \in Eids, cb \in BeforeKillCbs \cup {NoCb} :
        World_IsAlive(St, eid) =>
            LET a == UnpackX(eid)
                e == UnpackY(eid)
                S1 == IArchetype_Kill(St, a, e, cb)
            IN /\ KindsOf(S1.events)
                    = (IF cb = NoCb THEN << >> ELSE << "beforeKill" >>)
                      \o << "removed" >>
                      \o [ i \in 1 .. Len(UserRemovalCallbacks(a)) |-> "called" ]
                      \o << "destruct" >>
               /\ SeenIn(S1.events) \subseteq {[id |-> eid, val |-> SeenAlive + SeenIndexed]}
               /\ Len(SelectSeq(S1.events, LAMBDA ev : ev.kind = "sees"))
                    = (IF cb = NoCb THEN 0 ELSE 1) + Len(UserRemovalCallbacks(a))
               /\ \E en \in IndexEntries(St) : en.eid = eid
               /\ ~\E en \in IndexEntries(S1) : en.eid = eid
               /\ ~World_IsAlive(S1, eid)
               /\ CemeteryContains(S1, a, e) /\ e \notin S1.alives[a]
               /\ ~CemeteryContains(St, a, e) /\ e \in alives[a]
               /\ cachers[3].exists => eid \notin DOMAIN S1.cachers[3].cache

\* An entity has just been killed with a before-kill callback while a
\* removal callback of a user was registered on its archetype: both saw it
\* alive and indexed, and it is now in the cemetery.
C23_Witness ==
    /\ lastOp.name = "IArchetype::Kill"
    /\ KindsOf(events) = << "beforeKill", "removed", "called", "destruct" >>
    /\ SeenIn(events) = {[id |-> lastOp.ret, val |-> SeenAlive + SeenIndexed]}
    /\ CemeteryContains(St, UnpackX(lastOp.ret), UnpackY(lastOp.ret))

\* Row (a, e) holds a D whose x is v and whose proxy is bound to an entry of
\* index1 attributed to the entity of that row.
BoundToItsEntity(S, a, e, v) ==
    /\ S.rows[a][e] = [x |-> v, index |-> TRUE, bound |-> TRUE, owner |-> Pack(a, e)]
    /\ [val |-> v, eid |-> Pack(a, e)] \in IndexEntries(S)

\* C24: the world's last created entity id is set to e's id while e's
\* initializer runs, in NewEntity and in ApplyDelayedNewEntities, and unset at
\* every other time: the D constructed in e's initializer gets an index entry
\* attributed to e, also when the initializer creates another entity, and a D
\* constructed outside any initializer gets none and leaves the index as it is.
C24_LastCreatedEntityId ==
    /\ \A a \in Aids, v \in Values :
          CanAllocate(a) =>
             LET p == IArchetype_NewEntity(St, a, v)
             IN BoundToItsEntity(p.S, a, p.e, v) /\ ~p.S.lastCreatedEntityIdSet
    /\ \A a \in Aids, v \in Values, a2 \in Aids, first \in BOOLEAN :
          (CanAllocate(a) /\ CanAllocateIn(AllocateForNewEntity(St, a).S, a2)) =>
             LET p == IArchetype_NewEntityNesting(St, a, v, a2, first)
             IN /\ BoundToItsEntity(p.S, a, p.e, v)
                /\ BoundToItsEntity(p.S, a2, p.e2, 0)
                /\ ~p.S.lastCreatedEntityIdSet
    /\ LET S1 == World_ApplyDelayedNewEntities(St)
       IN /\ ~S1.lastCreatedEntityIdSet
          /\ \A eid \in Range(toBornW) :
                UnpackY(eid) \in DOMAIN toBornA[UnpackX(eid)] =>
                   BoundToItsEntity(S1, UnpackX(eid), UnpackY(eid),
                                    toBornA[UnpackX(eid)][UnpackY(eid)])
    /\ \A a \in Aids, e \in ShortIds, v \in Values :
          e >= ecursor[a] =>
             LET S1 == ConstructD(St, a, e, v)
             IN ~S1.rows[a][e].bound /\ IndexEntries(S1) = IndexEntries(St)

\* What an assignment of v through the proxy of row (a, e) of S does.
SilentlyAccepted(S, a, e, v) ==
    LET S1 == FieldProxy_Set(S, a, e, v)
    IN /\ NoError(S1.events)
       /\ IndexEntries(S1) = IndexEntries(S)
       /\ S1.rows[a][e].x = v

\* C25: assigning v through a FieldProxy that is bound to an index while its
\* iterator is end() raises no error, leaves the index unchanged, and leaves
\* v as the proxy's value; both for a component constructed outside any
\* entity creation and for one an entity creation left with end().
C25_AssignWithEndIterator ==
    /\ \A a \in Aids, e \in ShortIds, v0 \in Values, v \in Values :
          e >= ecursor[a] => SilentlyAccepted(ConstructD(St, a, e, v0), a, e, v)
    /\ \A a \in Aids, e \in ShortIds, v \in Values :
          (rows[a][e].index /\ ~rows[a][e].bound) => SilentlyAccepted(St, a, e, v)

\* The inputs within the ranges of 13 and 19 bits.
InRangeX == { x \in PackXInputs : x <= 8191 }
InRangeY == { y \in PackYInputs : y <= 524287 }

\* C26: for archetype ids of 13 bits and short ids of 19 bits, unpacking a
\* packed id gives the two ids back, and packed ids compare as the pairs do
\* lexicographically; other inputs are truncated to 13 and 19 bits.
C26_PackBijection ==
    /\ \A a \in InRangeX, s \in InRangeY :
          LET eid == PackWord(Bits(a), Bits(s))
          IN /\ WordValue(UnpackXWord(eid)) = a
             /\ WordValue(UnpackYWord(eid)) = s
             /\ a < 4096 => WordValue(eid) = Pack(a, s)
    /\ \A a1 \in InRangeX, s1 \in InRangeY, a2 \in InRangeX, s2 \in InRangeY :
          WordLess(PackWord(Bits(a1), Bits(s1)), PackWord(Bits(a2), Bits(s2)))
              <=> (a1 < a2 \/ (a1 = a2 /\ s1 < s2))
    /\ \A x \in PackXInputs, y \in PackYInputs :
          LET eid == PackWord(Bits(x), Bits(y))
          IN /\ WordValue(UnpackXWord(eid)) = x % Pow2(13)
             /\ WordValue(UnpackYWord(eid)) = y % Pow2(19)
             /\ eid = PackWord(Bits(x % Pow2(13)), Bits(y % Pow2(19)))
    /\ \A x \in PackXInputs :
          UnpackYWord(PackWord(Bits(x), WordBits)) = LowBits(19)
    /\ lastOp.name = "Pack" =>
          /\ events[1].id = lastOp.on % Pow2(13)
          /\ events[1].val = lastOp.ret % Pow2(19)

\* The largest archetype id and the largest short id have just been packed
\* and unpacked.
C26_Witness ==
    /\ lastOp = Op("Pack", 8191, 524287)
    /\ events = << Ev("unpacked", 8191, 524287, NoCb) >>
    /\ PackWord(Bits(8191), Bits(524287)) = WordBits

RECURSIVE PopAll(_, _)
\* What Pop returns, call after call, until the cemetery of a is empty.
PopAll(S, a) ==
    IF CemeterySize(S, a) = 0 THEN << >>
    ELSE LET p == CemeteryPop(S, a) IN << p.e >> \o PopAll(p.S, a)

\* The ids added to the cemetery of a and not yet popped.
Buried(S, a) == Range(S.cemQ[a])

\* What Add(e) does to the cemetery of a that holds S: the id is popped after
\* all those added before it, the size grows by one, and Contains is true of
\* the ids added and not popped.
AddIsFifo(S, a, e) ==
    LET S1 == CemeteryAdd(S, a, e)
    IN /\ PopAll(S1, a) = Append(PopAll(S, a), e)
       /\ CemeterySize(S1, a) = CemeterySize(S, a) + 1
       /\ \A x \in CemeteryIds : CemeteryContains(S1, a, x) <=> x \in Buried(S, a) \cup {e}

\* What Pop does: it returns the oldest id, the size shrinks by one, and
\* Contains is true of the ids still not popped.
PopIsFifo(S, a) ==
    LET p == CemeteryPop(S, a)
        all == PopAll(S, a)
    IN /\ p.e = all[1]
       /\ PopAll(p.S, a) = Tail(all)
       /\ CemeterySize(p.S, a) = CemeterySize(S, a) - 1
       /\ \A x \in CemeteryIds : CemeteryContains(p.S, a, x) <=> x \in Buried(p.S, a)

\* C27: whatever was added and popped before, an Add and a Pop (on a
\* cemetery that is not empty) keep the order, the size and Contains right:
\* ids are popped in the order they were added, Size is adds minus pops,
\* Contains(e) is true exactly of the ids added and not yet popped, and false
\* of every id beyond the allocated bound.
C27_CemeteryFifo ==
    /\ \A e \in CemeteryIds : AddIsFifo(St, 0, e)
    /\ CemeterySize(St, 0) > 0 => PopIsFifo(St, 0)
    /\ CemeterySize(St, 0) = Len(cemQ[0])
    /\ \A x \in CemeteryIds : CemeteryContains(St, 0, x) <=> x \in Buried(St, 0)
    /\ \A x \in CemeteryIds :
          x >= CemeteryNumBlocks(St, 0) * NumRowsPerBlock => ~CemeteryContains(St, 0, x)
    /\ lastOp.name = "Init" => PopAll(St, 0) = << >>

\* No id is in the cemetery of a twice, and Contains is true of the ids in it.
Mirrors(S, a) ==
    /\ Cardinality(Buried(S, a)) = Len(S.cemQ[a])
    /\ \A x \in CemeteryIds : CemeteryContains(S, a, x) <=> x \in Buried(S, a)

\* C27, amended: the same as long as no id is added while Contains is true
\* of it.
C27_CemeteryFifoOfAbsentIds ==
    /\ lastOp.name = "Init" => Mirrors(St, 0) /\ PopAll(St, 0) = << >>
    /\ Mirrors(St, 0) =>
          /\ \A e \in CemeteryIds :
                ~CemeteryContains(St, 0, e) =>
                    AddIsFifo(St, 0, e) /\ Mirrors(CemeteryAdd(St, 0, e), 0)
          /\ CemeterySize(St, 0) > 0 =>
                PopIsFifo(St, 0) /\ Mirrors(CemeteryPop(St, 0).S, 0)
          /\ CemeterySize(St, 0) = Len(cemQ[0])
          /\ \A x \in CemeteryIds :
                x >= CemeteryNumBlocks(St, 0) * NumRowsPerBlock
                    => ~CemeteryContains(St, 0, x)

\* Three ids of three blocks were added out of order, and the oldest has just
\* been popped.
C27_Witness ==
    /\ lastOp = Op("Cemetery::Pop", 0, 2 * NumRowsPerBlock)
    /\ cemQ[0] = << 0, NumRowsPerBlock >>
    /\ Mirrors(St, 0)

\* ceil(n / d), and the larger of two numbers.
CeilDiv(n, d) == (n + d - 1) \div d
Larger(m, n) == IF m > n THEN m ELSE n

\* C28: without Reserve, NumBlocks is ceil(max_added_id / NumRowsPerBlock),
\* step by step: no block before the first Add, each Add(e) leaves the larger
\* of what NumBlocks was and ceil(e / NumRowsPerBlock), and Pop leaves
\* NumBlocks as it was.
C28_CemeteryNumBlocks ==
    /\ lastOp.name = "Init" => CemeteryNumBlocks(St, 0) = 0
    /\ \A e \in CemeteryIds :
          CemeteryNumBlocks(CemeteryAdd(St, 0, e), 0)
              = Larger(CemeteryNumBlocks(St, 0), CeilDiv(e, NumRowsPerBlock))
    /\ CemeterySize(St, 0) > 0 =>
          CemeteryNumBlocks(CemeteryPop(St, 0).S, 0) = CemeteryNumBlocks(St, 0)

\* C28, amended: without Reserve, NumBlocks is
\* floor(max_added_id / NumRowsPerBlock) + 1 once an id was added and 0
\* before, step by step as above; every id in the cemetery is below
\* NumBlocks * NumRowsPerBlock.
C28_CemeteryNumBlocksFloorPlusOne ==
    /\ lastOp.name = "Init" => CemeteryNumBlocks(St, 0) = 0
    /\ \A e \in CemeteryIds :
          CemeteryNumBlocks(CemeteryAdd(St, 0, e), 0)
              = Larger(CemeteryNumBlocks(St, 0), (e \div NumRowsPerBlock) + 1)
    /\ CemeterySize(St, 0) > 0 =>
          CemeteryNumBlocks(CemeteryPop(St, 0).S, 0) = CemeteryNumBlocks(St, 0)
    /\ \A e \in Buried(St, 0) : e < CemeteryNumBlocks(St, 0) * NumRowsPerBlock
    /\ lastOp.name = "Cemetery::Add" =>
          CemeteryNumBlocks(St, 0) >= (lastOp.ret \div NumRowsPerBlock) + 1

\* The first id of the third block was added, then a smaller id, and both
\* were popped: three blocks are kept.
C28_Witness ==
    /\ lastOp = Op("Cemetery::Pop", 0, 1)
    /\ cemQ[0] = << >>
    /\ CemeteryNumBlocks(St, 0) = 3

\* The n-th fresh entity of archetype a is the one that leaves the cursor at n.
\* C29: without Reserve NumBlocks is ceil(cursor / MaxNumEntitiesPerBlock):
\* the fresh entity that leaves the cursor at k * MaxNumEntitiesPerBlock
\* leaves NumBlocks at k, the next one raises it to k + 1; a kill and a
\* creation that recycles a dead id leave NumBlocks as it was, and no
\* operation, Reserve included, lowers it.
C29_ArchetypeNumBlocks ==
    \A a \in Aids :
        /\ IArchetype_NumBlocks(St, a) = CeilDiv(ecursor[a], MaxNumEntitiesPerBlock)
        /\ (Len(cemQ[a]) > 0 \/ ecursor[a] < MaxBlockCursor) =>
              LET p == IArchetype_NewEntity(St, a, 0)
                  q == IArchetype_DelayedNewEntity(St, a, 0)
                  n == p.S.ecursor[a]
                  k == n \div MaxNumEntitiesPerBlock
              IN /\ IArchetype_NumBlocks(q.S, a) = IArchetype_NumBlocks(p.S, a)
                 /\ IF Len(cemQ[a]) > 0
                    THEN IArchetype_NumBlocks(p.S, a) = IArchetype_NumBlocks(St, a)
                    ELSE /\ n = ecursor[a] + 1
                         /\ n % MaxNumEntitiesPerBlock = 0 =>
                               IArchetype_NumBlocks(p.S, a) = k
                         /\ n % MaxNumEntitiesPerBlock = 1 =>
                               /\ IArchetype_NumBlocks(St, a) = k
                               /\ IArchetype_NumBlocks(p.S, a) = k + 1
        /\ \A e \in ShortIds :
              IArchetype_NumBlocks(World_Kill(St, Pack(a, e)), a)
                  = IArchetype_NumBlocks(St, a)
        /\ \A n \in ReserveInputs :
              IArchetype_NumBlocks(IArchetype_Reserve(St, a, n), a)
                  >= IArchetype_NumBlocks(St, a)

\* The entity after the last of the first block was created, and a creation
\* has just recycled the first id: there are two blocks.
C29_Witness ==
    /\ lastOp = Op("NewEntity", 0, Pack(0, 0))
    /\ ecursor[0] = MaxNumEntitiesPerBlock + 1
    /\ IArchetype_NumBlocks(St, 0) = 2
    /\ alives[0] = 0 .. MaxNumEntitiesPerBlock

\* Reserve(n) on archetype a of S creates no entity: NumEntities, the cursor,
\* the alive set, the cemetery contents and all else but the numbers of
\* blocks are as before.
CreatesNoEntity(S, a, n) ==
    LET S1 == IArchetype_Reserve(S, a, n)
    IN /\ IArchetype_NumEntities(S1, a) = IArchetype_NumEntities(S, a)
       /\ S1.ecursor = S.ecursor
       /\ S1.alives = S.alives
       /\ S1.cemQ = S.cemQ /\ S1.cemBits = S.cemBits
       /\ \A e \in ShortIds : CemeteryContains(S1, a, e) <=> CemeteryContains(S, a, e)
       /\ [S1 EXCEPT !.blocks = S.blocks, !.cemBlocks = S.cemBlocks] = S

\* C30: Reserve(n) sets NumBlocks to ceil(n / MaxNumEntitiesPerBlock), for
\* every n and every state of the archetype, and creates no entity.
C30_Reserve ==
    \A a \in Aids, n \in ReserveInputs :
        /\ IArchetype_NumBlocks(IArchetype_Reserve(St, a, n), a)
              = CeilDiv(n, MaxNumEntitiesPerBlock)
        /\ CreatesNoEntity(St, a, n)

\* C30, amended: Reserve(n) raises NumBlocks to
\* ceil(n / MaxNumEntitiesPerBlock) if it is below, leaves it otherwise, and
\* creates no entity.
C30_ReserveNeverShrinks ==
    /\ \A a \in Aids, n \in ReserveInputs :
          /\ IArchetype_NumBlocks(IArchetype_Reserve(St, a, n), a)
                = Larger(IArchetype_NumBlocks(St, a), CeilDiv(n, MaxNumEntitiesPerBlock))
          /\ CreatesNoEntity(St, a, n)
    /\ lastOp.name = "Reserve" =>
          IArchetype_NumBlocks(St, lastOp.on) >= CeilDiv(lastOp.ret, MaxNumEntitiesPerBlock)

\* Reserve(1) has just been called on an archetype of two blocks, one of its
\* three entities dead: the two blocks are kept.
C30_Witness ==
    /\ lastOp = Op("Reserve", 0, 1)
    /\ IArchetype_NumBlocks(St, 0) = 2
    /\ ecursor[0] = MaxNumEntitiesPerBlock + 1
    /\ Len(cemQ[0]) = 1

\* NewArchetype of cids in S signalled an error and registered nothing.
Rejected(S, cids, outcome) ==
    LET S1 == World_NewArchetypeAny(S, cids, outcome)
    IN /\ Threw(S1)
       /\ S1.archetypes = S.archetypes
       /\ S1.matcher = S.matcher

\* C31: NewArchetype signals an error and registers the archetype neither in
\* the world nor in the matcher when one of its component ids is at or
\* above MaxNumComponents, or when there are MaxNumArchetypesPerWorld
\* archetypes already.
C31_CapacityDetected ==
    \A cids \in CapacityInputs, o \in BeyondBitsetOutcomes :
        ((\E c \in cids : c >= MaxNumComponents)
            \/ Len(archetypes) >= MaxNumArchetypesPerWorld)
        => Rejected(St, cids, o)

\* C32: on a world without archetypes, the registration of a lifecycle
\* callback fails with the error of a registration made too early and
\* registers nothing: NumCallbacks and the next callback id are as before,
\* and so is all the rest of the world.
C32_RegistrationTooEarly ==
    /\ archetypes = << >> =>
          \A flag \in {0, 1}, k \in DOMAIN UserSigs :
              LET S1 == PushCallbackByComponents(St, flag, k)
              IN /\ S1.events = << Throw("RegistrationTooEarly") >>
                 /\ World_NumCallbacks(S1) = World_NumCallbacks(St)
                 /\ S1.nextCallbackId = nextCallbackId
                 /\ S1.callbacks = callbacks
                 /\ [S1 EXCEPT !.events = << >>] = St
    /\ (lastOp.name = "PushCallbackByComponents" /\ archetypes = << >>) =>
          /\ events = << Throw("RegistrationTooEarly") >>
          /\ World_NumCallbacks(St) = 0
          /\ nextCallbackId = 0

\* A registration has just failed on a world without archetypes.
C32_Witness ==
    /\ lastOp.name = "PushCallbackByComponents"
    /\ archetypes = << >>
    /\ events = << Throw("RegistrationTooEarly") >>
    /\ World_NumCallbacks(St) = 0

\* C33: Kill on a to-born entity makes it die directly and cancels the pending
\* creation: the id leaves the to-born map, and the following
\* ApplyDelayedNewEntities neither runs its initializer nor calls the
\* creation hook for it, and leaves it in no index and no cache, not alive.
C33_KillCancelsToBorn ==
    \A a \in Aids, e \in ShortIds :
        (e \in DOMAIN toBornA[a] /\ ~CemeteryContains(St, a, e)) =>
            LET eid == Pack(a, e)
                S1 == World_Kill(St, eid)
                S2 == World_ApplyDelayedNewEntities(S1)
            IN /\ e \in S1.cemBits[a]
               /\ ~World_IsAlive(S1, eid)
               /\ e \notin DOMAIN S1.toBornA[a]
               /\ eid \notin Range(EventIds(S2.events, "init"))
               /\ eid \notin Range(EventIds(S2.events, "created"))
               /\ eid \notin { en.eid : en \in IndexEntries(S2) }
               /\ \A c \in CacherIds : eid \notin DOMAIN S2.cachers[c].cache
               /\ ~World_IsAlive(S2, eid)

\* C34: ApplyDelayedKills kills only entities on which DelayedKill was called
\* since their own creation: every other alive entity is alive afterwards
\* and no before-kill callback is run on it; so it is for the entity that
\* recycles the id of an entity killed at once after its DelayedKill.
C34_OnlyTargetedAreKilled ==
    LET S1 == World_ApplyDelayedKills(St)
    IN /\ Range(KilledIn(S1.events)) \subseteq DOMAIN pendingKill
       /\ \A eid \in Eids :
             (World_IsAlive(St, eid) /\ eid \notin DOMAIN pendingKill) =>
                 /\ World_IsAlive(S1, eid)
                 /\ eid \notin Range(EventIds(S1.events, "beforeKill"))

\* C35: whenever a creation callback is invoked for an entity, IsAlive holds
\* for the entity and its components are constructed (its field is in the
\* index), in NewEntity and in ApplyDelayedNewEntities alike.
C35_CreatedCallbackSeesAlive ==
    /\ \A a \in Aids, v \in Values :
          CanAllocate(a) =>
              \A i \in DOMAIN IArchetype_NewEntity(St, a, v).S.events :
                  LET ev == IArchetype_NewEntity(St, a, v).S.events[i]
                  IN ev.kind = "sees" => ev.val = SeenAlive + SeenIndexed
    /\ \A i \in DOMAIN World_ApplyDelayedNewEntities(St).events :
          LET ev == World_ApplyDelayedNewEntities(St).events[i]
          IN ev.kind = "sees" => ev.val = SeenAlive + SeenIndexed

NothingToKill(S) ==
    S.toKillW = << >> /\ \A a \in Aids : DOMAIN S.toKillA[a] = {}
NothingToBeBorn(S) ==
    S.toBornW = << >> /\ \A a \in Aids : DOMAIN S.toBornA[a] = {}

EntryOf(S, eid) == [val |-> S.rows[UnpackX(eid)][UnpackY(eid)].x, eid |-> eid]

\* C37: index1 holds the entry of every alive entity and no other entry, and
\* an assignment to the field of an alive entity replaces the entity's entry
\* by one of the new value under the same id, leaving the other entries and
\* the size of the index as they are.
C37_IndexConsistent ==
    /\ IndexEntries(St) = { EntryOf(St, eid) : eid \in { x \in Eids : World_IsAlive(St, x) } }
    /\ \A eid \in Eids, v \in Values :
          World_IsAlive(St, eid) =>
              LET S1 == FieldProxy_Set(St, UnpackX(eid), UnpackY(eid), v)
              IN /\ IndexEntries(S1) =
                        (IndexEntries(St) \ {EntryOf(St, eid)}) \cup {[val |-> v, eid |-> eid]}
                 /\ Cardinality(IndexEntries(S1)) = Cardinality(IndexEntries(St))

\* The entity eid, alive in S, is in S1 what it is in S: alive, with the same
\* id on the same row, and with the same component values.
Untouched(S, S1, eid) ==
    /\ World_IsAlive(S1, eid)
    /\ World_Get(S1, eid) = World_Get(S, eid)
    /\ S1.rows[UnpackX(eid)][UnpackY(eid)] = S.rows[UnpackX(eid)][UnpackY(eid)]

\* An allocation in archetype a writes no row but the one it hands out.
ZeroesOnlyItsRow(S, a) ==
    \A a2 \in Aids, e2 \in ShortIds :
        <<a2, e2>> # <<a, AllocateForNewEntity(S, a).e>> =>
            AllocateForNewEntity(S, a).S.rows[a2][e2] = S.rows[a2][e2]

\* Creating, killing and their deferred forms, when they are not about eid.
OthersLeaveAlone(eid) ==
    /\ \A a \in Aids :
          CanAllocate(a) =>
              /\ Untouched(St, IArchetype_NewEntity(St, a, 0).S, eid)
              /\ Untouched(St, IArchetype_DelayedNewEntity(St, a, 0).S, eid)
              /\ ZeroesOnlyItsRow(St, a)
    /\ \A other \in Eids \ {eid} :
          /\ Untouched(St, World_Kill(St, other), eid)
          /\ Untouched(St, World_DelayedKill(St, other, "cb1"), eid)
    /\ Untouched(St, World_ApplyDelayedNewEntities(St), eid)

\* C38: rows are never relocated: creating, deferred creating, killing and
\* applying the deferred operations of other entities leave an alive entity
\* alive, with its id, its row and its component values, and an allocation
\* that recycles an id zeroes only the recycled row.
C38_RowsStay ==
    \A eid \in Eids :
        World_IsAlive(St, eid) =>
            /\ OthersLeaveAlone(eid)
            /\ eid \notin DOMAIN pendingKill =>
                   Untouched(St, World_ApplyDelayedKills(St), eid)

\* The filters whose order is exchanged.
OrderInputs ==
    { [op |-> o, rhs |-> r] : o \in {"EQ", "NE", "LT", "LE", "GT", "GE"}, r \in Values }
    \cup { [op |-> "IN", rhs |-> r] : r \in SUBSET Values }
    \cup { [op |-> "BT", rhs |-> r] : r \in RhsValues \X RhsValues }

\* C39: a filtered query arrives at the same set of entities whatever the
\* order of its filters, given at construction or appended with Where, and
\* after ClearFilters at what the query without filters arrives at.
C39_FilterOrder ==
    \A aids \in {{0, 1}, {1}}, f \in OrderInputs, g \in OrderInputs,
       o \in IncrementEndOutcomes :
        /\ QueryEntities(St, aids, << f, g >>, o) = QueryEntities(St, aids, << g, f >>, o)
        /\ QueryEntities(St, aids, IQuery_Where(<< f >>, g), o)
              = QueryEntities(St, aids, IQuery_Where(<< g >>, f), o)
        /\ QueryEntities(St, aids, IQuery_ClearFilters(<< f, g >>), o)
              = QueryEntities(St, aids, << >>, o)

\* The archetypes a client can still create, with the ids they would get.
NextArchetypes ==
    IF Len(archetypes) < NumArchetypes THEN {ArchSignatures[Len(archetypes) + 1]} ELSE {}

\* What the queries that are ready visit, what the cachers hold and what the
\* callbacks are registered for.
SetUp(S) ==
    [visits |-> [q \in { x \in QueryIds : S.ready[x] } |-> QueryVisits(S, q, FALSE)],
     aids |-> S.qaids, cachers |-> S.cachers, callbacks |-> S.callbacks]

\* A PreMatch of a query that is ready changes nothing, before and after the
\* creation of a further archetype.
PreMatchOnce ==
    \A q \in QueryIds :
        ready[q] =>
            /\ IQuery_PreMatch(St, q) = St
            /\ \A X \in NextArchetypes :
                  IQuery_PreMatch(World_NewArchetype(St, X), q).qaids[q] = qaids[q]

\* What is set up is no other after an archetype X is created and an entity
\* of X is created, and no callback is called for that entity.
BlindToLaterArchetypes ==
    \A X \in NextArchetypes, v \in Values :
        LET S1 == World_NewArchetype(St, X)
            S2 == IArchetype_NewEntity(S1, Len(archetypes), v).S
        IN /\ SetUp(S1) = SetUp(St)
           /\ SetUp(Quiet(S2)) = SetUp(St)
           /\ \A i \in DOMAIN S2.events : S2.events[i].kind # "called"

\* Queries visit, cachers hold and callbacks are called for entities of the
\* archetypes of their snapshots only.
WithinSnapshots ==
    /\ \A q \in QueryIds :
          ready[q] =>
              \A i \in DOMAIN QueryVisits(St, q, FALSE) :
                  UnpackX(QueryVisits(St, q, FALSE)[i].id) \in qaids[q]
    /\ \A c \in QueryIds :
          \A key \in DOMAIN cachers[c].cache : UnpackX(key) \in cachers[c].aids
    /\ \A i \in DOMAIN events :
          events[i].kind = "called" =>
              \E j \in DOMAIN callbacks :
                  callbacks[j].id = events[i].val /\ UnpackX(events[i].id) \in callbacks[j].aids

\* Where and ClearFilters on the query leave the cacher as it is, and it is
\* kept up to date afterwards as it is without them.
CacherKeepsItsFilters ==
    \A c \in QueryIds :
        cachers[c].exists =>
            \A S1 \in { Query_Where(St, c, f) : f \in WhereInputs }
                       \cup {Query_ClearFilters(St, c)} :
                /\ S1.cachers = cachers
                /\ \A a \in Aids, v \in Values :
                      (a < Len(archetypes) /\ CanAllocate(a)) =>
                          IArchetype_NewEntity(S1, a, v).S.cachers
                              = IArchetype_NewEntity(St, a, v).S.cachers
                /\ \A eid \in Eids, v \in Values :
                      (World_IsAlive(St, eid) /\ rows[UnpackX(eid)][UnpackY(eid)].bound) =>
                          FieldProxy_Set(S1, UnpackX(eid), UnpackY(eid), v).cachers
                              = FieldProxy_Set(St, UnpackX(eid), UnpackY(eid), v).cachers

\* C40: matched archetype sets are snapshots: the first PreMatch fixes a
\* query's set and later ones change nothing; a query, a cacher or a
\* lifecycle callback set up before an archetype is created never visits,
\* holds or is called for that archetype's entities; and a cacher keeps the
\* filters it was built with whatever Where and ClearFilters do to its query.
C40_Snapshots ==
    /\ PreMatchOnce
    /\ BlindToLaterArchetypes
    /\ WithinSnapshots
    /\ CacherKeepsItsFilters

\* An entity of the second archetype was created after query 1 was matched
\* and cached and a callback on D was registered with the first archetype
\* only: the query's set is without the second archetype, which has D, the
\* cache is without the entity, and no callback was called.
C40_Witness ==
    /\ lastOp.name = "NewEntity" /\ lastOp.on = 1
    /\ alives[1] # {}
    /\ ready[1] /\ qaids[1] = {0} /\ QAids(1) = {0, 1}
    /\ cachers[1].exists /\ cachers[1].aids = {0}
    /\ \A key \in DOMAIN cachers[1].cache : UnpackX(key) = 0
    /\ \E j \in DOMAIN callbacks : IsUserCallback(callbacks[j]) /\ callbacks[j].aids = {0}
    /\ \A i \in DOMAIN events : events[i].kind # "called"
    /\ qfilters[3] # QFilters(3) /\ cachers[3].exists /\ cachers[3].filters = QFilters(3)

====
